---- MODULE Spec2Model ----
(***************************************************************************)
(* ResticBackupManager: the process runner (internal/restic/runner.go),    *)
(* the App operations that drive it (app.go) and the pages that call them  *)
(* (frontend/src/pages).                                                   *)
(*                                                                         *)
(* Text is modelled as a sequence of phrases: a phrase is a run of         *)
(* characters that the code only ever tests as a whole (a known error      *)
(* substring, a white-space run, any other words).  strings.Contains for a *)
(* known substring is "the phrase occurs", strings.ToLower maps each       *)
(* phrase to its lower-case form.                                          *)
(***************************************************************************)
EXTENDS Integers, Sequences, FiniteSets, TLC

\* ------------------------------------------------------------------------
\* Bounds of the model
\* ------------------------------------------------------------------------
MaxOps == 2          \* streaming operations launched in one run
MaxLines == 2        \* stdout lines one subprocess writes
MaxRaw == 2          \* phrases in one captured engine text
MaxListing == 3      \* lines of one snapshot listing
MaxRepos == 2         \* repositories added in one run
MaxJobList == 2      \* excludes, tags and source paths of one backup job

NIL == 0             \* the nil cancelFunc
NoErr == <<>>        \* the nil error

\* ------------------------------------------------------------------------
\* Text
\* ------------------------------------------------------------------------
Lower(tok) ==
    CASE tok = "Wrong password" -> "wrong password"
      [] tok = "Network" -> "network"
      [] tok = "DIAL" -> "dial"
      [] tok = "Fatal:" -> "fatal:"
      [] tok = "Repository" -> "repository"
      [] OTHER -> tok

ToLower(s) == [i \in 1..Len(s) |-> Lower(s[i])]

Contains(s, sub) == \E i \in 1..Len(s) : s[i] = sub

IsSpace(tok) == tok \in {" ", "\n"}

RECURSIVE TrimLeft(_)
TrimLeft(s) ==
    IF s # <<>> /\ IsSpace(Head(s)) THEN TrimLeft(Tail(s)) ELSE s

RECURSIVE TrimRight(_)
TrimRight(s) ==
    IF s # <<>> /\ IsSpace(s[Len(s)])
    THEN TrimRight(SubSeq(s, 1, Len(s) - 1))
    ELSE s

TrimSpace(s) == TrimRight(TrimLeft(s))

\* The fixed messages of friendlyError, and the other error texts.
MsgWrongPassword == <<"Wrong password", "for this repository.">>
MsgNotInitialized ==
    <<"Repository", "not initialized",
      ". Go to Repositories, Edit, click Initialize repository first.">>
MsgNetwork == <<"Network", "error. Is the server reachable?">>
MsgPermission == <<"Access denied. Please check permissions.">>
MsgAlreadyInit == <<"Repository", "already exists.">>
MsgLocked == <<"Repository", "is locked. Please wait or unlock it manually.">>
MsgUnknown == <<"Unknown error">>
ErrCancelled == <<"cancelled">>
ErrContextCanceled == <<"context canceled">>
ErrPipe == <<"pipe: too many open files">>
ErrExec == <<"exec: file does not exist">>
ErrResticNotFound == <<"restic not found">>
ErrRepoNotFound == <<"repository not found">>
ErrNoPaths == <<"no paths selected">>

\* variant: the cases of the switch tested in the reverse order
friendlyErrorNoOrder(raw) ==
    LET lower == ToLower(raw) IN
    IF Contains(lower, "is already locked") THEN MsgLocked
    ELSE IF Contains(lower, "already initialized") THEN MsgAlreadyInit
    ELSE IF Contains(lower, "permission denied") THEN MsgPermission
    ELSE IF Contains(lower, "connection refused") \/ Contains(lower, "network")
            \/ Contains(lower, "dial") THEN MsgNetwork
    ELSE IF Contains(lower, "no such file")
            \/ Contains(lower, "repository does not exist") THEN MsgNotInitialized
    ELSE IF Contains(lower, "wrong password") THEN MsgWrongPassword
    ELSE IF raw = <<>> THEN MsgUnknown
    ELSE raw

\* friendlyError: the first case of the switch that matches
friendlyError(raw) ==
    LET lower == ToLower(raw) IN
    IF Contains(lower, "wrong password") THEN MsgWrongPassword
    ELSE IF Contains(lower, "no such file")
            \/ Contains(lower, "repository does not exist") THEN MsgNotInitialized
    ELSE IF Contains(lower, "connection refused") \/ Contains(lower, "network")
            \/ Contains(lower, "dial") THEN MsgNetwork
    ELSE IF Contains(lower, "permission denied") THEN MsgPermission
    ELSE IF Contains(lower, "already initialized") THEN MsgAlreadyInit
    ELSE IF Contains(lower, "is already locked") THEN MsgLocked
    ELSE IF raw = <<>> THEN MsgUnknown
    ELSE raw

\* variant: the captured output is returned along with the error
RunKeepsOutput(out, code) ==
    IF code # 0
    THEN [out |-> out, err |-> friendlyError(TrimSpace(out))]
    ELSE [out |-> out, err |-> NoErr]

\* Runner.Run: the subprocess wrote `out` (stdout and stderr combined) and
\* ended with exit code `code` (non-zero: cmd.CombinedOutput returns an error)
Run(out, code) ==
    IF code # 0
    THEN [out |-> <<>>, err |-> friendlyError(TrimSpace(out))]
    ELSE [out |-> out, err |-> NoErr]

\* ------------------------------------------------------------------------
\* Stdout lines of a streaming subprocess and json.Unmarshal into a
\* progress struct
\* ------------------------------------------------------------------------
LineStatus == "{\"message_type\":\"status\",\"percent_done\":0.5}"
LineSummary == "{\"message_type\":\"summary\",\"files_new\":3}"
LineEmptyObject == "{}"
LineNull == "null"
LineArray == "[1]"
LineBadType == "{\"percent_done\":\"half\"}"
LineText == "repository 1a2b opened"
LineEmpty == ""
LineLong == "<a line longer than bufio.MaxScanTokenSize>"

\* the line is a JSON text
JSONValid(line) ==
    line \in {LineStatus, LineSummary, LineEmptyObject, LineNull, LineArray,
              LineBadType}

\* json.Unmarshal([]byte(line), &progress) returns nil: the line is a JSON
\* object whose known fields have the struct's types, or null.
UnmarshalOK(line) ==
    line \in {LineStatus, LineSummary, LineEmptyObject, LineNull}

\* the progress struct json.Unmarshal leaves behind: the fields the line
\* gives, every other field zero
Unmarshal(line) ==
    CASE line = LineStatus -> "Progress{MessageType:status PercentDone:0.5}"
      [] line = LineSummary -> "Progress{MessageType:summary FilesNew:3}"
      [] OTHER -> "Progress{}"

\* bufio.Scanner.Scan delivers the line (it fits the scanner's buffer).
Scannable(line) == line # LineLong

\* ------------------------------------------------------------------------
\* The repository directory the App resolves credentials from
\* ------------------------------------------------------------------------
Repos ==
    [r1 |-> [uri |-> "sftp:host:/repo", password |-> "pw-one"],
     r2 |-> [uri |-> "sftp:host:/repo", password |-> "pw-two"]]

RepoIDs == DOMAIN Repos

\* The environment overlay of the child process.
EnvOverlay(uri, password) ==
    {<<"RESTIC_REPOSITORY", uri>>, <<"RESTIC_PASSWORD", password>>}

RunEnv(uri, password) ==
    IF uri # "" THEN EnvOverlay(uri, password) ELSE {}

\* ------------------------------------------------------------------------
\* Argument lists
\* ------------------------------------------------------------------------
RECURSIVE Flagged(_, _)
Flagged(flag, xs) ==
    IF xs = <<>> THEN <<>> ELSE <<flag, Head(xs)>> \o Flagged(flag, Tail(xs))

\* variant: the tags put before the excludes
BackupArgsTagsFirst(job) ==
    <<"backup", "--json">> \o Flagged("--tag", job.tags)
        \o Flagged("--exclude", job.excludes) \o job.sourcePaths

BackupArgs(job) ==
    <<"backup", "--json">> \o Flagged("--exclude", job.excludes)
        \o Flagged("--tag", job.tags) \o job.sourcePaths

RestoreArgs(snapshotID, targetPath) ==
    <<"restore", snapshotID, "--target", targetPath, "--json">>

\* variant: one --include flag for the whole selection
RestoreSelectedArgsOneFlag(snapshotID, target, includePaths) ==
    <<"restore", snapshotID, "--target", target, "--json", "--include">>
        \o includePaths

RestoreSelectedArgs(snapshotID, target, includePaths) ==
    <<"restore", snapshotID, "--target", target, "--json">>
        \o Flagged("--include", includePaths)

\* ------------------------------------------------------------------------
\* Engine paths (restore selection) as characters
\* ------------------------------------------------------------------------
\* the bytes of a path (Go strings are byte sequences; the one non-ASCII
\* path starts with a segment of one character, U+00E9, in two bytes)
Chars(p) ==
    CASE p = "/G/docs" -> <<"/", "G", "/", "d", "o", "c", "s">>
      [] p = "/g/a" -> <<"/", "g", "/", "a">>
      [] p = "\\G\\b" -> <<"\\", "G", "\\", "b">>
      [] p = "/H/c" -> <<"/", "H", "/", "c">>
      [] p = "/srv/x" -> <<"/", "s", "r", "v", "/", "x">>
      [] p = "G" -> <<"G">>
      [] p = "//G/x" -> <<"/", "/", "G", "/", "x">>
      [] p = "/" -> <<"/">>
      [] p = "/<C3><A9>/x" -> <<"/", "<C3>", "<A9>", "/", "x">>
      [] OTHER -> <<>>

ToUpperChar(c) ==
    CASE c = "g" -> "G" [] c = "h" -> "H" [] c = "s" -> "S" [] OTHER -> c

\* strings.SplitN(norm, "/", 2)[0]
RECURSIVE FirstSegment(_)
FirstSegment(cs) ==
    IF cs = <<>> \/ Head(cs) = "/" THEN <<>>
    ELSE <<Head(cs)>> \o FirstSegment(Tail(cs))

\* variant: the volume letter returned as written
extractDriveLetterKeepsCase(path) ==
    LET cs == Chars(path)
        norm == [i \in 1..Len(cs) |-> IF cs[i] = "\\" THEN "/" ELSE cs[i]]
        trimmed == IF norm # <<>> /\ Head(norm) = "/" THEN Tail(norm) ELSE norm
        first == FirstSegment(trimmed)
    IN IF Len(first) = 1 THEN first[1] ELSE ""

extractDriveLetter(path) ==
    LET cs == Chars(path)
        norm == [i \in 1..Len(cs) |-> IF cs[i] = "\\" THEN "/" ELSE cs[i]]
        trimmed == IF norm # <<>> /\ Head(norm) = "/" THEN Tail(norm) ELSE norm
        first == FirstSegment(trimmed)
    IN IF Len(first) = 1 THEN ToUpperChar(first[1]) ELSE ""

TempDir(driveLetter) == driveLetter \o ":\\restic-gui-temp-1a2b3c4d"

\* path with its backslashes turned into slashes and one leading slash
\* dropped
Normalized(path) ==
    LET cs == Chars(path)
        norm == [i \in 1..Len(cs) |-> IF cs[i] = "\\" THEN "/" ELSE cs[i]]
    IN IF norm # <<>> /\ Head(norm) = "/" THEN Tail(norm) ELSE norm

\* what follows the first segment and its slash
RECURSIVE AfterFirstSegment(_)
AfterFirstSegment(cs) ==
    IF cs = <<>> THEN <<>>
    ELSE IF Head(cs) = "/" THEN Tail(cs)
    ELSE AfterFirstSegment(Tail(cs))

\* the include paths of a restore argument list
IncludesOf(args) == [k \in 1..((Len(args) - 5) \div 2) |-> args[5 + 2 * k]]

\* variant: what the engine restored on any volume counts as produced on
\* the drive
ProducedOnAnyVolume(drive, args) ==
    LET incl == IncludesOf(args)
        onVolume == {k \in 1..Len(incl) : Len(FirstSegment(Normalized(incl[k]))) = 1}
        names == {FirstSegment(AfterFirstSegment(Normalized(incl[k]))) : k \in onVolume}
    IN names \ {<<>>}

\* The engine restores an included path /V/name/... to <target>\V\name\...:
\* the top-level entries it leaves under <staging>\<drive> (volume names are
\* case-insensitive), and whether it leaves anything on another volume.
Produced(drive, args) ==
    LET incl == IncludesOf(args)
        onDrive == {k \in 1..Len(incl) :
                      LET first == FirstSegment(Normalized(incl[k]))
                      IN Len(first) = 1 /\ ToUpperChar(first[1]) = drive}
        names == {FirstSegment(AfterFirstSegment(Normalized(incl[k]))) : k \in onDrive}
    IN names \ {<<>>}

\* the top-level entries the engine leaves under the staging subtrees of the
\* volumes other than drive
Stray(drive, args) ==
    LET incl == IncludesOf(args)
        offDrive == {k \in 1..Len(incl) :
                       LET first == FirstSegment(Normalized(incl[k]))
                       IN Len(first) = 1 /\ ToUpperChar(first[1]) # drive}
        names == {FirstSegment(AfterFirstSegment(Normalized(incl[k]))) : k \in offDrive}
    IN names \ {<<>>}

\* ------------------------------------------------------------------------
\* State
\* ------------------------------------------------------------------------
VARIABLES
    runner,       \* App.runner: "ok" (located) or "nil" (locator failed)
    cancelFunc,   \* Runner.cancelFunc: NIL, or the streaming call whose context it cancels
    ops,          \* the background tasks launched by StartBackup / StartRestore / RestoreSelected
    ret,          \* the last App call and what it returned
    ui,           \* the mounted page: its status state and pending continuation
    fnIn,         \* input of a function applied on its own
    fnOut,        \* its result
    cfg           \* ConfigManager: Config in memory, the file, the calls in progress

vars == <<runner, cancelFunc, ops, ret, ui, fnIn, fnOut, cfg>>

OpIds == 1..MaxOps

\* A background task.  includePaths: the selection its closure captured;
\* staged: its staging directory exists; made: the
\* top-level entries the engine left under <staging>\<drive>; todo: those
\* moveContents has still to move; left: those still under the staging tree;
\* dest: those present under <drive>:\; removal: how the deferred removal
\* of the staging directory went ("none": not run); blocked: the subprocess
\* is stuck writing to a stdout pipe that is full and no longer read; short:
\* the entries under <drive>:\ that lack part of their subtree; stray: the
\* top-level entries under the staging subtrees of other volumes than
\* drive.  ctx, proc, code, errText, errBuf are the locals of
\* its RunWithProgress call (context, subprocess, exit code, what the
\* subprocess wrote on stderr, stderrBuf); out is what it read from stdout;
\* ev the events it emitted; cancelReq records that Cancel() was called
\* while the call was in flight and the subprocess alive.
NoOp ==
    [api |-> "none", toOriginal |-> FALSE, includePaths |-> <<>>,
     args |-> <<>>, drive |-> "",
     pc |-> "unused", ctx |-> FALSE, proc |-> "none", code |-> 0,
     out |-> <<>>, errText |-> <<>>, errBuf |-> <<>>,
     ev |-> <<>>, cancelReq |-> FALSE, staged |-> FALSE,
     made |-> {}, todo |-> {}, left |-> {}, dest |-> {}, removal |-> "none",
     blocked |-> FALSE, short |-> {}, stray |-> {}]

Kind(api) == IF api = "StartBackup" THEN "backup" ELSE "restore"

\* the streaming call of task i is between its entry and its return
InFlight(i) == ops[i].pc \in {"registered", "reading", "wait"}

Launched == {i \in OpIds : ops[i].pc # "unused"}

IsTerminal(e) == e.name \in {"backup:complete", "backup:error",
                             "restore:complete", "restore:error"}
IsProgress(e) == e.name \in {"backup:progress", "restore:progress"}
TerminalsOf(i) == SelectSeq(ops[i].ev, IsTerminal)
ProgressOf(i) == SelectSeq(ops[i].ev, IsProgress)

EventName(api, what) == Kind(api) \o ":" \o what

\* runtime.EventsEmit(a.ctx, "<kind>:<what>", data) by task i
Emit(i, what, data) ==
    Append(ops[i].ev, [name |-> EventName(ops[i].api, what), data |-> data])

NoJob == [repoID |-> "none", sourcePaths |-> <<>>, excludes |-> <<>>, tags |-> <<>>]
NoFn == [fn |-> "none", raw |-> <<>>, code |-> 0, op |-> "none", repoID |-> "none",
         job |-> NoJob,
         exeOK |-> FALSE, colocated |-> FALSE, inPath |-> FALSE]
NoResult == [fn |-> "none", out |-> <<>>, err |-> <<>>, args |-> <<>>,
             env |-> {}, names |-> {}, path |-> ""]

UIIdle == [page |-> "repos", status |-> "idle", wait |-> "none",
           delivered |-> [i \in OpIds |-> 0], errMsg |-> NoErr]
\* ConfigManager.  repos, lastUsed: Config.Repositories and
\* Config.LastUsedRepo in memory; file: what config.json holds; issued: the
\* identifiers handed out so far; calls: for each caller the mutation it is
\* in (pc "save": Config changed and cm.mu released, Save not yet run) and
\* whether its last call returned an error (err).
CfgCallers == {1, 2}
NoCall == [op |-> "none", id |-> "", pc |-> "idle", err |-> FALSE]
NoCfg == [repos |-> <<>>, lastUsed |-> "",
          file |-> [repos |-> <<>>, lastUsed |-> ""],
          issued |-> 0,
          calls |-> [c \in CfgCallers |-> NoCall]]

NoRet == [api |-> "none", err |-> NoErr]

\* ------------------------------------------------------------------------
\* App: starting a streaming operation
\* ------------------------------------------------------------------------
TheJob == [repoID |-> "r1", sourcePaths |-> <<"C:\\data">>,
           excludes |-> <<".git">>, tags |-> <<>>]
TheSnapshot == "4f2a91c0"
TheTarget == "D:\\restore"

CanLaunch == \E j \in OpIds : ops[j].pc = "unused"

\* go func() { ... }(): a new background task
Launch(api, toOriginal, includePaths, args, drive) ==
    LET i == CHOOSE j \in OpIds : ops[j].pc = "unused" /\
                 \A k \in OpIds : k < j => ops[k].pc # "unused"
    IN ops' = [ops EXCEPT ![i] =
                 [NoOp EXCEPT !.api = api, !.toOriginal = toOriginal,
                              !.includePaths = includePaths,
                              !.args = args, !.drive = drive,
                              !.pc = IF toOriginal THEN "stage" ELSE "call"]]

\* variant: the repository looked up after the task was launched
StartBackupLooksUpLate(job) ==
    /\ CanLaunch
    /\ IF runner = "nil"
       THEN /\ ret' = [api |-> "StartBackup", err |-> ErrResticNotFound]
            /\ UNCHANGED ops
       ELSE /\ Launch("StartBackup", FALSE, <<>>, BackupArgs(job), "")
            /\ ret' = [api |-> "StartBackup",
                       err |-> IF job.repoID \notin RepoIDs THEN ErrRepoNotFound
                               ELSE NoErr]
    /\ UNCHANGED <<runner, cancelFunc>>

StartBackup(job) ==
    /\ CanLaunch
    /\ IF runner = "nil"
       THEN /\ ret' = [api |-> "StartBackup", err |-> ErrResticNotFound]
            /\ UNCHANGED ops
       ELSE IF job.repoID \notin RepoIDs
       THEN /\ ret' = [api |-> "StartBackup", err |-> ErrRepoNotFound]
            /\ UNCHANGED ops
       ELSE /\ Launch("StartBackup", FALSE, <<>>, BackupArgs(job), "")
            /\ ret' = [api |-> "StartBackup", err |-> NoErr]
    /\ UNCHANGED <<runner, cancelFunc>>

StartRestore(repoID, snapshotID, targetPath) ==
    /\ CanLaunch
    /\ IF runner = "nil"
       THEN /\ ret' = [api |-> "StartRestore", err |-> ErrResticNotFound]
            /\ UNCHANGED ops
       ELSE IF repoID \notin RepoIDs
       THEN /\ ret' = [api |-> "StartRestore", err |-> ErrRepoNotFound]
            /\ UNCHANGED ops
       ELSE /\ Launch("StartRestore", FALSE, <<>>, RestoreArgs(snapshotID, targetPath), "")
            /\ ret' = [api |-> "StartRestore", err |-> NoErr]
    /\ UNCHANGED <<runner, cancelFunc>>

\* variant: the selection is not looked at before the task is launched
RestoreSelectedAnySelection(repoID, snapshotID, includePaths, targetPath, toOriginal) ==
    /\ CanLaunch
    /\ IF runner = "nil"
       THEN /\ ret' = [api |-> "RestoreSelected", err |-> ErrResticNotFound]
            /\ UNCHANGED ops
       ELSE IF repoID \notin RepoIDs
       THEN /\ ret' = [api |-> "RestoreSelected", err |-> ErrRepoNotFound]
            /\ UNCHANGED ops
       ELSE /\ ret' = [api |-> "RestoreSelected", err |-> NoErr]
            /\ IF toOriginal
               THEN LET driveLetter == IF includePaths = <<>> THEN ""
                                       ELSE extractDriveLetter(includePaths[1]) IN
                    Launch("RestoreSelected", TRUE, includePaths,
                           RestoreSelectedArgs(snapshotID, TempDir(driveLetter), includePaths),
                           driveLetter)
               ELSE Launch("RestoreSelected", FALSE, includePaths,
                           RestoreSelectedArgs(snapshotID, targetPath, includePaths), "")
    /\ UNCHANGED <<runner, cancelFunc>>

RestoreSelected(repoID, snapshotID, includePaths, targetPath, toOriginal) ==
    /\ CanLaunch
    /\ IF runner = "nil"
       THEN /\ ret' = [api |-> "RestoreSelected", err |-> ErrResticNotFound]
            /\ UNCHANGED ops
       ELSE IF repoID \notin RepoIDs
       THEN /\ ret' = [api |-> "RestoreSelected", err |-> ErrRepoNotFound]
            /\ UNCHANGED ops
       ELSE IF Len(includePaths) = 0
       THEN /\ ret' = [api |-> "RestoreSelected", err |-> ErrNoPaths]
            /\ UNCHANGED ops
       ELSE /\ ret' = [api |-> "RestoreSelected", err |-> NoErr]
            /\ IF toOriginal
               THEN LET driveLetter == extractDriveLetter(includePaths[1]) IN
                    Launch("RestoreSelected", TRUE, includePaths,
                           RestoreSelectedArgs(snapshotID, TempDir(driveLetter), includePaths),
                           driveLetter)
               ELSE Launch("RestoreSelected", FALSE, includePaths,
                           RestoreSelectedArgs(snapshotID, targetPath, includePaths), "")
    /\ UNCHANGED <<runner, cancelFunc>>

\* ------------------------------------------------------------------------
\* Runner.Cancel, reached through App.CancelBackup and App.CancelRestore
\* ------------------------------------------------------------------------
MarkCancel(i) ==
    [ops[i] EXCEPT !.cancelReq = @ \/ (InFlight(i) /\ ops[i].proc = "alive")]

RunnerCancel ==
    /\ ops' = [i \in OpIds |->
                 IF cancelFunc # NIL /\ i = cancelFunc
                 THEN [MarkCancel(i) EXCEPT !.ctx = TRUE]
                 ELSE MarkCancel(i)]
    /\ UNCHANGED cancelFunc

CancelBackup ==
    /\ IF runner # "nil" THEN RunnerCancel ELSE UNCHANGED <<ops, cancelFunc>>
    /\ ret' = [api |-> "CancelBackup", err |-> NoErr]
    /\ UNCHANGED runner

CancelRestore ==
    /\ IF runner # "nil" THEN RunnerCancel ELSE UNCHANGED <<ops, cancelFunc>>
    /\ ret' = [api |-> "CancelRestore", err |-> NoErr]
    /\ UNCHANGED runner

\* ------------------------------------------------------------------------
\* The background task: Runner.RunWithProgress and what the task does
\* around it
\* ------------------------------------------------------------------------
\* variant: restore:complete emitted before the move phase as well
AfterRunTwice(i, err) ==
    LET o == [ops[i] EXCEPT !.ctx = FALSE, !.proc = "none", !.code = 0,
                            !.errText = <<>>, !.errBuf = <<>>, !.cancelReq = FALSE]
    IN IF err # NoErr
       THEN [o EXCEPT !.ev = Emit(i, "error", err),
                      !.pc = IF o.toOriginal THEN "cleanup" ELSE "done"]
       ELSE IF o.toOriginal
       THEN [o EXCEPT !.ev = Emit(i, "complete", <<>>), !.pc = "move"]
       ELSE [o EXCEPT !.ev = Emit(i, "complete", <<>>), !.pc = "done"]

\* variant: the move phase entered after a failed engine call as well
AfterRunMovesAnyway(i, err) ==
    LET o == [ops[i] EXCEPT !.ctx = FALSE, !.proc = "none", !.code = 0,
                            !.errText = <<>>, !.errBuf = <<>>, !.cancelReq = FALSE]
    IN IF err # NoErr
       THEN [o EXCEPT !.ev = Emit(i, "error", err),
                      !.pc = IF o.toOriginal THEN "move" ELSE "done"]
       ELSE IF o.toOriginal
       THEN [o EXCEPT !.pc = "move"]
       ELSE [o EXCEPT !.ev = Emit(i, "complete", <<>>), !.pc = "done"]

\* The task after its RunWithProgress call returned err: the locals of the
\* call go out of scope and the task emits its terminal event, or goes on to
\* the move phase (restore to original location).
AfterRun(i, err) ==
    LET o == [ops[i] EXCEPT !.ctx = FALSE, !.proc = "none", !.code = 0,
                            !.errText = <<>>, !.errBuf = <<>>, !.cancelReq = FALSE]
    IN IF err # NoErr
       THEN [o EXCEPT !.ev = Emit(i, "error", err),
                      !.pc = IF o.toOriginal THEN "cleanup" ELSE "done"]
       ELSE IF o.toOriginal
       THEN [o EXCEPT !.pc = "move"]
       ELSE [o EXCEPT !.ev = Emit(i, "complete", <<>>), !.pc = "done"]

\* variant: a return that leaves r.cancelFunc registered
ReturnKeepsTrigger(i, err) ==
    /\ ops' = [ops EXCEPT ![i] = AfterRun(i, err)]
    /\ UNCHANGED cancelFunc

\* every return path of RunWithProgress runs the deferred r.cancelFunc = nil
Return(i, err) ==
    /\ ops' = [ops EXCEPT ![i] = AfterRun(i, err)]
    /\ cancelFunc' = NIL

ErrMkdir == <<"Failed to create temp directory: ", "mkdir failed">>

\* variant: the engine launched whether or not the staging directory was made
StageIgnoresMkdir(i, mkdirOK) ==
    /\ ops[i].pc = "stage"
    /\ IF ops[i].drive = ""
       THEN ops' = [ops EXCEPT ![i].pc = "done",
                      ![i].ev = Emit(i, "error", <<"Could not determine drive letter from path">>)]
       ELSE ops' = [ops EXCEPT ![i].pc = "call", ![i].staged = mkdirOK]
    /\ UNCHANGED <<runner, cancelFunc, ret>>

\* restore to original location: derive the volume, create the staging
\* directory (mkdirOK: os.MkdirAll succeeded)
Stage(i, mkdirOK) ==
    /\ ops[i].pc = "stage"
    /\ IF ops[i].drive = ""
       THEN ops' = [ops EXCEPT ![i].pc = "done",
                      ![i].ev = Emit(i, "error", <<"Could not determine drive letter from path">>)]
       ELSE IF ~mkdirOK
       THEN ops' = [ops EXCEPT ![i].pc = "done",
                      ![i].ev = Emit(i, "error", ErrMkdir)]
       ELSE ops' = [ops EXCEPT ![i].pc = "call", ![i].staged = TRUE]
    /\ UNCHANGED <<runner, cancelFunc, ret>>

\* r.mu.Lock(); ctx, cancel := context.WithCancel(...); r.cancelFunc = cancel
Register(i) ==
    /\ ops[i].pc = "call"
    /\ ops' = [ops EXCEPT ![i].pc = "registered"]
    /\ cancelFunc' = i
    /\ UNCHANGED <<runner, ret>>

\* StdoutPipe, StderrPipe, cmd.Start
StartProc(i, outcome) ==
    /\ ops[i].pc = "registered"
    /\ IF outcome = "pipe" THEN Return(i, ErrPipe)
       ELSE IF outcome = "exec" THEN Return(i, ErrExec)
       ELSE IF ops[i].ctx THEN Return(i, ErrContextCanceled)
       ELSE /\ ops' = [ops EXCEPT ![i].pc = "reading", ![i].proc = "alive"]
            /\ UNCHANGED cancelFunc
    /\ UNCHANGED <<runner, ret>>

\* variant: an event for every line, decoded or not
onLineEmitsAll(i, line) ==
    Emit(i, "progress", Unmarshal(line))

\* variant: the newest progress event put before the earlier ones
onLineFirst(i, line) ==
    IF UnmarshalOK(line)
    THEN <<[name |-> EventName(ops[i].api, "progress"), data |-> Unmarshal(line)]>>
             \o ops[i].ev
    ELSE ops[i].ev

\* the onLine callbacks of app.go: emit the decoded line, skip any other
onLine(i, line) ==
    IF UnmarshalOK(line) THEN Emit(i, "progress", Unmarshal(line)) ELSE ops[i].ev

\* for sc.Scan() { onLine(sc.Text()) }: the subprocess writes `line`, the
\* loop reads it; a line that does not fit the scanner's buffer ends the loop
ScanLine(i, line) ==
    /\ ops[i].pc = "reading"
    /\ ops[i].proc = "alive"
    /\ Len(ops[i].out) < MaxLines
    /\ IF Scannable(line)
       THEN ops' = [ops EXCEPT ![i].out = Append(@, line), ![i].ev = onLine(i, line)]
       ELSE ops' = [ops EXCEPT ![i].out = Append(@, line), ![i].pc = "wait"]
    /\ UNCHANGED <<runner, cancelFunc, ret>>

\* the subprocess ends (by itself, or killed after its context was
\* cancelled) having written errText on stderr; a subprocess stuck in a
\* write ends only by being killed
ProcExit(i, code, errText) ==
    /\ ops[i].proc = "alive"
    /\ ops[i].blocked => ops[i].ctx /\ code # 0
    /\ LET made == IF ops[i].toOriginal /\ code = 0
                   THEN Produced(ops[i].drive, ops[i].args) ELSE {}
           stray == IF ops[i].toOriginal /\ code = 0
                    THEN Stray(ops[i].drive, ops[i].args) ELSE {}
       IN ops' = [ops EXCEPT ![i].proc = "exited", ![i].code = code,
                             ![i].blocked = FALSE,
                             ![i].errText = errText,
                             ![i].made = made, ![i].left = made,
                             ![i].stray = stray]
    /\ UNCHANGED <<runner, cancelFunc, ret>>

\* The read loop has ended on a line the scanner gave up on and the task
\* is in cmd.Wait; the subprocess goes on writing to stdout, which nobody
\* reads any more, and the pipe fills up.
PipeFull(i) ==
    /\ ops[i].pc = "wait"
    /\ ops[i].proc = "alive"
    /\ ~ops[i].blocked
    /\ ops' = [ops EXCEPT ![i].blocked = TRUE]
    /\ UNCHANGED <<runner, cancelFunc, ret>>

\* the stderr goroutine: stderrBuf.WriteString(sc.Text() + "\n")
StderrScan(i) ==
    /\ ops[i].pc \in {"reading", "wait"}
    /\ ops[i].proc = "exited"
    /\ Len(ops[i].errBuf) < 2 * Len(ops[i].errText)
    /\ ops' = [ops EXCEPT ![i].errBuf =
                 @ \o <<ops[i].errText[(Len(@) \div 2) + 1], "\n">>]
    /\ UNCHANGED <<runner, cancelFunc, ret>>

\* variant: a non-zero exit is translated whether or not the context was cancelled
WaitResultIgnoresCtx(o, ctxErr) ==
    IF ~(o.code # 0 \/ (o.ctx /\ ctxErr)) THEN NoErr
    ELSE friendlyError(TrimSpace(o.errBuf))

\* cmd.Wait() and the classification of its error.  ctxErr: Wait reports
\* the context's error for a process that exited zero after the context
\* was cancelled (the kill was sent before the process was reaped).
WaitResult(o, ctxErr) ==
    IF ~(o.code # 0 \/ (o.ctx /\ ctxErr)) THEN NoErr
    ELSE IF o.ctx THEN ErrCancelled
    ELSE friendlyError(TrimSpace(o.errBuf))

\* The read loop has ended (end of stdout once the subprocess exited, or a
\* line the scanner gave up on) and cmd.Wait returns.
Wait(i, ctxErr) ==
    /\ ops[i].pc \in {"reading", "wait"}
    /\ ops[i].proc = "exited"
    /\ Return(i, WaitResult(ops[i], ctxErr))
    /\ UNCHANGED <<runner, ret>>

\* moveContents(srcBase, dstBase): os.ReadDir(src).  A source that does not
\* exist is nothing to move; moveOK: ReadDir succeeded.
Move(i, moveOK) ==
    /\ ops[i].pc = "move"
    /\ IF ops[i].made = {}
       THEN ops' = [ops EXCEPT ![i].pc = "cleanup",
                      ![i].ev = Emit(i, "complete", <<>>)]
       ELSE IF ~moveOK
       THEN ops' = [ops EXCEPT ![i].pc = "cleanup",
                      ![i].ev = Emit(i, "error", <<"Move failed: ", "readdir failed">>)]
       ELSE ops' = [ops EXCEPT ![i].pc = "moving", ![i].todo = ops[i].made]
    /\ UNCHANGED <<runner, cancelFunc, ret>>

\* variant: an entry that could not be moved is skipped
MoveEntrySkipsFailure(i, entry, outcome) ==
    /\ ops[i].pc = "moving"
    /\ entry \in ops[i].todo
    /\ LET rest == ops[i].todo \ {entry}
           present == IF outcome \in {"renamed", "copied", "kept"}
                      THEN ops[i].dest \cup {entry} ELSE ops[i].dest
           o == [ops[i] EXCEPT !.todo = rest, !.dest = present,
                               !.left = IF outcome \in {"renamed", "copied"}
                                        THEN @ \ {entry} ELSE @]
       IN ops' = [ops EXCEPT ![i] =
                    IF rest = {}
                    THEN [o EXCEPT !.pc = "cleanup", !.ev = Emit(i, "complete", <<>>)]
                    ELSE o]
    /\ UNCHANGED <<runner, cancelFunc, ret>>

\* variant: a failed move undoes the entries moved before it
MoveEntryRollsBack(i, entry, outcome) ==
    /\ ops[i].pc = "moving"
    /\ entry \in ops[i].todo
    /\ IF outcome \in {"mkdir", "failed", "torn"}
       THEN ops' = [ops EXCEPT ![i].pc = "cleanup", ![i].todo = {},
                      ![i].dest = {}, ![i].short = {}, ![i].left = ops[i].made,
                      ![i].ev = Emit(i, "error",
                                     <<"Move failed: ", "rename and copy failed">>)]
       ELSE LET rest == ops[i].todo \ {entry}
                o == [ops[i] EXCEPT !.todo = rest, !.dest = @ \cup {entry},
                                    !.left = IF outcome = "kept" THEN @ ELSE @ \ {entry},
                                    !.short = IF outcome = "partial" THEN @ \cup {entry}
                                              ELSE @]
            IN ops' = [ops EXCEPT ![i] =
                         IF rest = {}
                         THEN [o EXCEPT !.pc = "cleanup", !.ev = Emit(i, "complete", <<>>)]
                         ELSE o]
    /\ UNCHANGED <<runner, cancelFunc, ret>>

\* one round of the loop of moveContents, for one entry of the source.
\* outcome: "mkdir" (os.MkdirAll of the destination's parent failed),
\* "renamed" (os.Rename succeeded), "copied" (Rename failed, copyPath and
\* os.RemoveAll succeeded), "kept" (Rename failed, copyPath succeeded,
\* os.RemoveAll failed: its error is dropped), "partial" (Rename failed,
\* copyPath could not read a directory of the subtree, dropped the error of
\* os.ReadDir and returned nil; os.RemoveAll succeeded), "failed" (Rename
\* and copyPath failed, nothing of the entry at the destination), "torn"
\* (Rename failed and copyPath failed part-way: part of the entry is at the
\* destination).  After the last entry moveContents returns nil and the task
\* emits restore:complete.
MoveEntry(i, entry, outcome) ==
    /\ ops[i].pc = "moving"
    /\ entry \in ops[i].todo
    /\ IF outcome \in {"mkdir", "failed", "torn"}
       THEN ops' = [ops EXCEPT ![i].pc = "cleanup", ![i].todo = {},
                      ![i].dest = IF outcome = "torn" THEN @ \cup {entry} ELSE @,
                      ![i].short = IF outcome = "torn" THEN @ \cup {entry} ELSE @,
                      ![i].ev = Emit(i, "error",
                                     <<"Move failed: ",
                                       IF outcome = "mkdir" THEN "mkdir failed"
                                       ELSE "rename and copy failed">>)]
       ELSE LET rest == ops[i].todo \ {entry}
                o == [ops[i] EXCEPT !.todo = rest, !.dest = @ \cup {entry},
                                    !.left = IF outcome = "kept" THEN @ ELSE @ \ {entry},
                                    !.short = IF outcome = "partial" THEN @ \cup {entry}
                                              ELSE @]
            IN ops' = [ops EXCEPT ![i] =
                         IF rest = {}
                         THEN [o EXCEPT !.pc = "cleanup", !.ev = Emit(i, "complete", <<>>)]
                         ELSE o]
    /\ UNCHANGED <<runner, cancelFunc, ret>>

\* variant: the task ends without removing its staging directory
CleanupSkipped(i, removeOK) ==
    /\ ops[i].pc = "cleanup"
    /\ ops' = [ops EXCEPT ![i].pc = "done"]
    /\ UNCHANGED <<runner, cancelFunc, ret>>

\* defer os.RemoveAll(tempDir); its error is dropped (removeOK: it succeeded)
Cleanup(i, removeOK) ==
    /\ ops[i].pc = "cleanup"
    /\ ops' = [ops EXCEPT ![i].pc = "done",
                          ![i].staged = ~removeOK,
                          ![i].removal = IF removeOK THEN "ok" ELSE "failed",
                          ![i].left = IF removeOK THEN {} ELSE @,
                          ![i].stray = IF removeOK THEN {} ELSE @]
    /\ UNCHANGED <<runner, cancelFunc, ret>>

\* outcomes of one round of moveContents
MoveOutcomes == {"mkdir", "renamed", "copied", "kept", "partial", "failed", "torn"}
Entries == {<<"d", "o", "c", "s">>, <<"a">>, <<"b">>, <<"c">>, <<"x">>}

\* ------------------------------------------------------------------------
\* Spec: the App driven through its exported operations, in any order and
\* overlap.  The subprocesses write nothing on stdout here; StreamSpec
\* below follows one task with its stdout.
\* ------------------------------------------------------------------------
StderrTexts == {<<>>, <<"wrong password">>, <<"unable to open config file">>}
ExitOutcomes == {<<0, <<>> >>} \cup {<<1, t>> : t \in StderrTexts}

Init ==
    /\ runner \in {"ok", "nil"}
    /\ cancelFunc = NIL
    /\ ops = [i \in OpIds |-> NoOp]
    /\ ret = NoRet
    /\ ui = UIIdle
    /\ fnIn = NoFn
    /\ fnOut = NoResult
    /\ cfg = NoCfg

\* what Spec and StreamSpec leave alone: the page and the function inputs
Frame == UNCHANGED <<ui, fnIn, cfg, fnOut>>

\* the outcomes of cmd.Start and of the subprocess that Spec follows
Starts == {"ok", "exec"}
Exits == {<<0, <<>> >>, <<1, <<>> >>}

Next ==
    \/ StartBackup(TheJob) /\ Frame
    \/ StartRestore("r1", TheSnapshot, TheTarget) /\ Frame
    \/ RestoreSelected("r1", TheSnapshot, <<"/G/docs">>, TheTarget, TRUE) /\ Frame
    \/ CancelBackup /\ Frame
    \/ CancelRestore /\ Frame
    \/ \E i \in OpIds, mkdirOK \in BOOLEAN : Stage(i, mkdirOK) /\ Frame
    \/ \E i \in OpIds : Register(i) /\ Frame
    \/ \E i \in OpIds, outcome \in Starts : StartProc(i, outcome) /\ Frame
    \/ \E i \in OpIds, x \in Exits : ProcExit(i, x[1], x[2]) /\ Frame
    \/ \E i \in OpIds, ctxErr \in BOOLEAN : Wait(i, ctxErr) /\ Frame
    \/ \E i \in OpIds, moveOK \in BOOLEAN : Move(i, moveOK) /\ Frame
    \/ \E i \in OpIds, entry \in Entries, outcome \in {"renamed", "failed"} :
          MoveEntry(i, entry, outcome) /\ Frame
    \/ \E i \in OpIds : Cleanup(i, TRUE) /\ Frame

Spec == Init /\ [][Next]_vars

\* ------------------------------------------------------------------------
\* StreamSpec: one background task per run, with the lines its subprocess
\* writes on stdout and stderr
\* ------------------------------------------------------------------------
StreamLines == {LineStatus, LineSummary, LineEmptyObject, LineNull, LineArray,
                LineBadType, LineText, LineEmpty, LineLong}
StreamStarts == {"ok", "pipe", "exec"}
Selections == {<<"/G/docs">>, <<"/srv/x">>}

StreamNext ==
    \/ Launched = {} /\ StartBackup(TheJob) /\ Frame
    \/ Launched = {} /\ StartRestore("r1", TheSnapshot, TheTarget) /\ Frame
    \/ \E sel \in Selections, toOriginal \in BOOLEAN :
          Launched = {} /\ RestoreSelected("r1", TheSnapshot, sel, TheTarget, toOriginal) /\ Frame
    \/ CancelBackup /\ Frame
    \/ CancelRestore /\ Frame
    \/ \E i \in OpIds, mkdirOK \in BOOLEAN : Stage(i, mkdirOK) /\ Frame
    \/ \E i \in OpIds : Register(i) /\ Frame
    \/ \E i \in OpIds, outcome \in StreamStarts : StartProc(i, outcome) /\ Frame
    \/ \E i \in OpIds, x \in ExitOutcomes : ProcExit(i, x[1], x[2]) /\ Frame
    \/ \E i \in OpIds : StderrScan(i) /\ Frame
    \/ \E i \in OpIds, line \in StreamLines : ScanLine(i, line) /\ Frame
    \/ \E i \in OpIds : PipeFull(i) /\ Frame
    \/ \E i \in OpIds, ctxErr \in BOOLEAN : Wait(i, ctxErr) /\ Frame
    \/ \E i \in OpIds, moveOK \in BOOLEAN : Move(i, moveOK) /\ Frame
    \/ \E i \in OpIds, entry \in Entries, outcome \in MoveOutcomes :
          MoveEntry(i, entry, outcome) /\ Frame
    \/ \E i \in OpIds, removeOK \in BOOLEAN : Cleanup(i, removeOK) /\ Frame

StreamSpec == Init /\ [][StreamNext]_vars

\* the steps of the tasks and of their subprocesses, as opposed to the
\* calls the user makes
TaskStep ==
    \/ \E i \in OpIds, mkdirOK \in BOOLEAN : Stage(i, mkdirOK) /\ Frame
    \/ \E i \in OpIds : Register(i) /\ Frame
    \/ \E i \in OpIds, outcome \in StreamStarts : StartProc(i, outcome) /\ Frame
    \/ \E i \in OpIds, x \in ExitOutcomes : ProcExit(i, x[1], x[2]) /\ Frame
    \/ \E i \in OpIds, ctxErr \in BOOLEAN : Wait(i, ctxErr) /\ Frame
    \/ \E i \in OpIds, moveOK \in BOOLEAN : Move(i, moveOK) /\ Frame
    \/ \E i \in OpIds, entry \in Entries, outcome \in MoveOutcomes :
          MoveEntry(i, entry, outcome) /\ Frame
    \/ \E i \in OpIds, removeOK \in BOOLEAN : Cleanup(i, removeOK) /\ Frame

\* StreamSpec under fair scheduling: a task that can take a step, or whose
\* subprocess can exit, does not wait forever
StreamLiveSpec == Init /\ [][StreamNext]_vars /\ WF_vars(TaskStep)

\* ------------------------------------------------------------------------
\* UISpec: the pages of the frontend driving the App.  One page is mounted
\* at a time; mounting a page starts its component with status 'idle'.
\* ------------------------------------------------------------------------
Pages == {"repos", "backup", "restore", "selective"}

\* the events the mounted page subscribes to
PageKind(page) ==
    IF page = "backup" THEN "backup"
    ELSE IF page \in {"restore", "selective"} THEN "restore"
    ELSE "none"

\* setPage(item.id): the old page unmounts (EventsOff), the new one mounts
Navigate(page) ==
    /\ page # ui.page
    /\ ui' = [UIIdle EXCEPT !.page = page, !.delivered = ui.delivered]
    /\ UNCHANGED <<runner, cancelFunc, ops, ret, fnIn, cfg, fnOut>>

\* start / startRestore of the page: setStatus('running'), then the App
\* call; a rejected call sets status 'error'
Started ==
    ui' = [ui EXCEPT !.status = IF ret'.err # NoErr THEN "error" ELSE "running",
                     !.errMsg = ret'.err]

BackupStart ==
    /\ ui.page = "backup" /\ ui.status = "idle"
    /\ StartBackup(TheJob)
    /\ Started
    /\ UNCHANGED <<fnIn, cfg, fnOut>>

RestoreStart ==
    /\ ui.page = "restore" /\ ui.status = "idle"
    /\ StartRestore("r1", TheSnapshot, TheTarget)
    /\ Started
    /\ UNCHANGED <<fnIn, cfg, fnOut>>

SelectiveStart(toOriginal) ==
    /\ ui.page = "selective" /\ ui.status = "idle"
    /\ RestoreSelected("r1", TheSnapshot, <<"/G/docs">>, TheTarget, toOriginal)
    /\ Started
    /\ UNCHANGED <<fnIn, cfg, fnOut>>

\* cancel of the Backup and Restore pages: await Cancel...()
BackupCancel ==
    /\ ui.page = "backup" /\ ui.status = "running" /\ ui.wait = "none"
    /\ CancelBackup
    /\ ui' = [ui EXCEPT !.wait = "cancel"]
    /\ UNCHANGED <<fnIn, cfg, fnOut>>

RestoreCancel ==
    /\ ui.page = "restore" /\ ui.status = "running" /\ ui.wait = "none"
    /\ CancelRestore
    /\ ui' = [ui EXCEPT !.wait = "cancel"]
    /\ UNCHANGED <<fnIn, cfg, fnOut>>

\* ... then setStatus('idle')
CancelDone ==
    /\ ui.wait = "cancel"
    /\ ui' = [ui EXCEPT !.status = "idle", !.wait = "none"]
    /\ UNCHANGED <<runner, cancelFunc, ops, ret, fnIn, cfg, fnOut>>

\* the Back / New Restore / New Backup buttons
Reset ==
    /\ ui.status \in {"done", "error"}
    /\ ui' = [ui EXCEPT !.status = "idle"]
    /\ UNCHANGED <<runner, cancelFunc, ops, ret, fnIn, cfg, fnOut>>

\* errMsg.includes('not initialized'): the error card of the Backup page
\* offers 'Initialize repository now'
InitOffered(errMsg) == Contains(errMsg, "not initialized")

\* the button of the error card: await InitRepository(repo), then reset()
\* when it succeeded (initOK), a toast when it failed
BackupInit(initOK) ==
    /\ ui.page = "backup" /\ ui.status = "error"
    /\ InitOffered(ui.errMsg)
    /\ ret' = [api |-> "InitRepository",
               err |-> IF runner = "nil" THEN ErrResticNotFound
                       ELSE IF initOK THEN NoErr ELSE MsgAlreadyInit]
    /\ ui' = IF ret'.err = NoErr THEN [ui EXCEPT !.status = "idle"] ELSE ui
    /\ UNCHANGED <<runner, cancelFunc, ops, fnIn, cfg, fnOut>>

\* the next event of task i reaches the frontend: the handlers the mounted
\* page registered with EventsOn run, an event nobody listens to is dropped
Deliver(i) ==
    /\ ui.delivered[i] < Len(ops[i].ev)
    /\ LET e == ops[i].ev[ui.delivered[i] + 1]
           kind == Kind(ops[i].api)
           u == [ui EXCEPT !.delivered[i] = @ + 1]
       IN ui' = IF PageKind(ui.page) # kind THEN u
                ELSE IF e.name = EventName(ops[i].api, "complete")
                THEN [u EXCEPT !.status = "done"]
                ELSE IF e.name = EventName(ops[i].api, "error")
                THEN [u EXCEPT !.status = "error", !.errMsg = e.data]
                ELSE u
    /\ UNCHANGED <<runner, cancelFunc, ops, ret, fnIn, cfg, fnOut>>

\* the subprocess ends well, fails silently, or fails on a repository that
\* does not exist
UIExits == Exits \cup {<<1, <<"Fatal:", "repository does not exist">> >>}

UIInit ==
    /\ runner = "ok"
    /\ cancelFunc = NIL
    /\ ops = [i \in OpIds |-> NoOp]
    /\ ret = NoRet
    /\ ui = UIIdle
    /\ fnIn = NoFn
    /\ fnOut = NoResult
    /\ cfg = NoCfg

UINext ==
    \/ \E page \in Pages : Navigate(page)
    \/ BackupStart
    \/ RestoreStart
    \/ \E toOriginal \in BOOLEAN : SelectiveStart(toOriginal)
    \/ BackupCancel
    \/ RestoreCancel
    \/ CancelDone
    \/ Reset
    \/ \E initOK \in BOOLEAN : BackupInit(initOK)
    \/ \E i \in OpIds : Deliver(i)
    \/ \E i \in OpIds, mkdirOK \in BOOLEAN : Stage(i, mkdirOK) /\ Frame
    \/ \E i \in OpIds : Register(i) /\ Frame
    \/ \E i \in OpIds, outcome \in Starts : StartProc(i, outcome) /\ Frame
    \/ \E i \in OpIds, x \in UIExits : ProcExit(i, x[1], x[2]) /\ Frame
    \/ \E i \in OpIds : StderrScan(i) /\ Frame
    \/ \E i \in OpIds, ctxErr \in BOOLEAN : Wait(i, ctxErr) /\ Frame
    \/ \E i \in OpIds, moveOK \in BOOLEAN : Move(i, moveOK) /\ Frame
    \/ \E i \in OpIds, entry \in Entries, outcome \in {"renamed", "failed"} :
          MoveEntry(i, entry, outcome) /\ Frame
    \/ \E i \in OpIds : Cleanup(i, TRUE) /\ Frame

UISpec == UIInit /\ [][UINext]_vars

\* ------------------------------------------------------------------------
\* FnSpec: the functions of the runner and the invocations the App builds,
\* each applied to one input
\* ------------------------------------------------------------------------
Phrases ==
    {"wrong password", "Wrong password", "no such file",
     "repository does not exist", "connection refused", "network", "Network",
     "DIAL", "permission denied", "already initialized", "is already locked",
     "Fatal:", "unable to open config file", "for this repository.",
     "error. Is the server reachable?", " ", "\n"}

RECURSIVE TextsUpTo(_)
TextsUpTo(n) ==
    IF n = 0 THEN {<<>>}
    ELSE LET shorter == TextsUpTo(n - 1)
         IN shorter \cup {Append(t, p) : t \in shorter, p \in Phrases}

RawTexts == TextsUpTo(MaxRaw)
ExitCodes == {0, 1, 3}

\* the App operations that run the engine
SyncOps == {"TestRepository", "InitRepository", "GetSnapshots", "DeleteSnapshot",
            "GetResticVersion", "ListSnapshotContents"}
StreamOps == {"StartBackup", "StartRestore", "RestoreSelected",
              "RestoreSelectedToOriginal"}

AppArgs(op) ==
    CASE op = "TestRepository" -> <<"cat", "config">>
      [] op = "InitRepository" -> <<"init">>
      [] op = "GetSnapshots" -> <<"snapshots", "--json">>
      [] op = "DeleteSnapshot" -> <<"forget", TheSnapshot, "--prune">>
      [] op = "GetResticVersion" -> <<"version">>
      [] op = "ListSnapshotContents" -> <<"ls", "--json", TheSnapshot>>
      [] op = "StartBackup" -> BackupArgs(TheJob)
      [] op = "StartRestore" -> RestoreArgs(TheSnapshot, TheTarget)
      [] op = "RestoreSelected" ->
            RestoreSelectedArgs(TheSnapshot, TheTarget, <<"/G/docs", "/g/a">>)
      [] op = "RestoreSelectedToOriginal" ->
            RestoreSelectedArgs(TheSnapshot,
                                TempDir(extractDriveLetter("/G/docs")),
                                <<"/G/docs", "/g/a">>)

\* the events a streaming operation emits under
EventNames(op) ==
    IF op \in StreamOps
    THEN LET api == IF op = "RestoreSelectedToOriginal" THEN "RestoreSelected" ELSE op
         IN {EventName(api, what) : what \in {"progress", "complete", "error"}}
    ELSE {}

\* variant: the repository and password handed over as flags
InvocationWithFlags(op, repoID) ==
    LET repo == Repos[repoID]
    IN [args |-> AppArgs(op) \o <<"--repo", repo.uri, "--password", repo.password>>,
        env |-> {},
        names |-> EventNames(op)]

\* the engine invocation of App operation op on repository repoID: the
\* argument list, the environment overlay of the child, the event names
Invocation(op, repoID) ==
    LET repo == Repos[repoID]
    IN [args |-> AppArgs(op),
        env |-> IF op \in StreamOps THEN EnvOverlay(repo.uri, repo.password)
                ELSE IF op = "GetResticVersion" THEN RunEnv("", "")
                ELSE RunEnv(repo.uri, repo.password),
        names |-> EventNames(op)]

\* the locator's results
ColocatedPath == "<exeDir>\\restic.exe"
SearchPath == "<PATH>\\restic.exe"
ErrLocate == <<"restic.exe not found.", "\n\n", "Please do one of the following: ...">>

\* variant: the search path looked up before the application's directory
NewRunnerPathFirst(exeOK, colocated, inPath) ==
    IF inPath THEN [path |-> SearchPath, err |-> NoErr]
    ELSE IF exeOK /\ colocated THEN [path |-> ColocatedPath, err |-> NoErr]
    ELSE [path |-> "", err |-> ErrLocate]

\* NewRunner().  exeOK: os.Executable() returned no error; colocated: a
\* restic.exe exists in the directory of the running executable (os.Stat of
\* it succeeds); inPath: exec.LookPath("restic") finds one.
NewRunner(exeOK, colocated, inPath) ==
    IF exeOK /\ colocated THEN [path |-> ColocatedPath, err |-> NoErr]
    ELSE IF inPath THEN [path |-> SearchPath, err |-> NoErr]
    ELSE [path |-> "", err |-> ErrLocate]

\* ------------------------------------------------------------------------
\* The listing of a snapshot: the lines of `ls --json` (stdout and stderr
\* combined) and what ListSnapshotContents makes of them
\* ------------------------------------------------------------------------
LsSnapshot == "{\"struct_type\":\"snapshot\",\"id\":\"4f2a91c0\"}"
LsNodeDir == "{\"struct_type\":\"node\",\"name\":\"docs\",\"type\":\"dir\",\"path\":\"/G/docs\"}"
LsNodeFile == "{\"struct_type\":\"node\",\"name\":\"a\",\"type\":\"file\",\"path\":\"/g/a\",\"size\":7}"
LsBadType == "{\"struct_type\":\"node\",\"name\":\"x\",\"size\":\"big\"}"
LsOther == "{\"message_type\":\"verbose_status\"}"
LsText == "warning: lock is stale"

LsLines == {LsSnapshot, LsNodeDir, LsNodeFile, LsBadType, LsOther, LsText, ""}

\* the output text of lines, as tokens: the content of each non-empty line
\* and "\n" after each line (after the last one only when terminated)
RECURSIVE ListingText(_, _)
ListingText(lines, terminated) ==
    IF lines = <<>> THEN <<>>
    ELSE (IF Head(lines) = "" THEN <<>> ELSE <<Head(lines)>>)
         \o (IF Len(lines) > 1 \/ terminated THEN <<"\n">> ELSE <<>>)
         \o ListingText(Tail(lines), terminated)

RECURSIVE LinesUpTo(_)
LinesUpTo(n) ==
    IF n = 0 THEN {<<>>}
    ELSE LET shorter == LinesUpTo(n - 1)
         IN shorter \cup {Append(l, x) : l \in shorter, x \in LsLines}

Listings == {ListingText(l, t) : l \in LinesUpTo(MaxListing), t \in BOOLEAN}

\* splitLines(s): the loop over s from position i, the current line having
\* started at position start
RECURSIVE SplitFrom(_, _, _)
SplitFrom(s, start, i) ==
    IF i > Len(s)
    THEN IF start <= Len(s) THEN <<SubSeq(s, start, Len(s))>> ELSE <<>>
    ELSE IF s[i] = "\n"
    THEN <<SubSeq(s, start, i - 1)>> \o SplitFrom(s, i + 1, i + 1)
    ELSE SplitFrom(s, start, i + 1)

splitLines(s) == SplitFrom(s, 1, 1)

\* json.Unmarshal([]byte(line), &node) returns nil
NodeUnmarshalOK(line) == line \in {<<LsSnapshot>>, <<LsNodeDir>>, <<LsNodeFile>>, <<LsOther>>}

\* the FileNode json.Unmarshal leaves behind
FileNode(line) ==
    CASE line = <<LsSnapshot>> -> [StructType |-> "snapshot", Name |-> "", Type |-> "", Path |-> ""]
      [] line = <<LsNodeDir>> -> [StructType |-> "node", Name |-> "docs", Type |-> "dir", Path |-> "/G/docs"]
      [] line = <<LsNodeFile>> -> [StructType |-> "node", Name |-> "a", Type |-> "file", Path |-> "/g/a"]
      [] OTHER -> [StructType |-> "", Name |-> "", Type |-> "", Path |-> ""]

\* variant: the first line dropped, every other line that decodes kept
RECURSIVE NodesAfterFirst(_, _)
NodesAfterFirst(lines, k) ==
    IF k > Len(lines) THEN <<>>
    ELSE IF k = 1 \/ ~NodeUnmarshalOK(lines[k]) THEN NodesAfterFirst(lines, k + 1)
    ELSE <<FileNode(lines[k])>> \o NodesAfterFirst(lines, k + 1)

ListSnapshotContentsByPosition(out) == NodesAfterFirst(splitLines(out), 1)

\* the loop of ListSnapshotContents over the lines from the k-th on
RECURSIVE NodesFrom(_, _)
NodesFrom(lines, k) ==
    IF k > Len(lines) THEN <<>>
    ELSE IF lines[k] = <<>> THEN NodesFrom(lines, k + 1)
    ELSE IF ~NodeUnmarshalOK(lines[k]) THEN NodesFrom(lines, k + 1)
    ELSE IF FileNode(lines[k]).StructType = "node"
    THEN <<FileNode(lines[k])>> \o NodesFrom(lines, k + 1)
    ELSE NodesFrom(lines, k + 1)

\* ListSnapshotContents after Run returned out without error
ListSnapshotContents(out) == NodesFrom(splitLines(out), 1)

\* the backup jobs StartBackup is given
RECURSIVE ListsUpTo(_, _)
ListsUpTo(S, n) ==
    IF n = 0 THEN {<<>>}
    ELSE LET shorter == ListsUpTo(S, n - 1)
         IN shorter \cup {Append(l, x) : l \in shorter, x \in S}

Jobs ==
    {[repoID |-> "r1", sourcePaths |-> s, excludes |-> e, tags |-> t] :
        s \in ListsUpTo({"C:\\data", "D:\\x"}, MaxJobList),
        e \in ListsUpTo({".git", "*.tmp"}, MaxJobList),
        t \in ListsUpTo({"daily", "host"}, MaxJobList)}

FnInputs ==
    {[NoFn EXCEPT !.fn = "friendlyError", !.raw = raw] : raw \in RawTexts}
    \cup {[NoFn EXCEPT !.fn = "Run", !.raw = raw, !.code = code] :
             raw \in RawTexts, code \in ExitCodes}
    \cup {[NoFn EXCEPT !.fn = "Invocation", !.op = op, !.repoID = repoID] :
             op \in SyncOps \cup StreamOps, repoID \in RepoIDs}
    \cup {[NoFn EXCEPT !.fn = "ListSnapshotContents", !.raw = out] : out \in Listings}
    \cup {[NoFn EXCEPT !.fn = "StartBackup", !.job = job] : job \in Jobs}
    \cup {[NoFn EXCEPT !.fn = "NewRunner", !.exeOK = e, !.colocated = c, !.inPath = p] :
             e \in BOOLEAN, c \in BOOLEAN, p \in BOOLEAN}

FnInit ==
    /\ runner = "ok"
    /\ cancelFunc = NIL
    /\ ops = [i \in OpIds |-> NoOp]
    /\ ret = NoRet
    /\ ui = UIIdle
    /\ fnIn \in FnInputs
    /\ fnOut = NoResult
    /\ cfg = NoCfg

ApplyFriendlyError ==
    /\ fnIn.fn = "friendlyError" /\ fnOut.fn = "none"
    /\ fnOut' = [NoResult EXCEPT !.fn = "friendlyError", !.err = friendlyError(fnIn.raw)]
    /\ UNCHANGED <<runner, cancelFunc, ops, ret, ui, fnIn, cfg>>

ApplyRun ==
    /\ fnIn.fn = "Run" /\ fnOut.fn = "none"
    /\ LET r == Run(fnIn.raw, fnIn.code)
       IN fnOut' = [NoResult EXCEPT !.fn = "Run", !.out = r.out, !.err = r.err]
    /\ UNCHANGED <<runner, cancelFunc, ops, ret, ui, fnIn, cfg>>

ApplyInvocation ==
    /\ fnIn.fn = "Invocation" /\ fnOut.fn = "none"
    /\ LET inv == Invocation(fnIn.op, fnIn.repoID)
       IN fnOut' = [NoResult EXCEPT !.fn = "Invocation", !.args = inv.args,
                                    !.env = inv.env, !.names = inv.names]
    /\ UNCHANGED <<runner, cancelFunc, ops, ret, ui, fnIn, cfg>>

ApplyNewRunner ==
    /\ fnIn.fn = "NewRunner" /\ fnOut.fn = "none"
    /\ LET r == NewRunner(fnIn.exeOK, fnIn.colocated, fnIn.inPath)
       IN fnOut' = [NoResult EXCEPT !.fn = "NewRunner", !.path = r.path, !.err = r.err]
    /\ UNCHANGED <<runner, cancelFunc, ops, ret, ui, fnIn, cfg>>

ApplyListSnapshotContents ==
    /\ fnIn.fn = "ListSnapshotContents" /\ fnOut.fn = "none"
    /\ fnOut' = [NoResult EXCEPT !.fn = "ListSnapshotContents",
                                 !.out = ListSnapshotContents(fnIn.raw)]
    /\ UNCHANGED <<runner, cancelFunc, ops, ret, ui, fnIn, cfg>>

\* the argument list StartBackup hands to RunWithProgress
ApplyStartBackup ==
    /\ fnIn.fn = "StartBackup" /\ fnOut.fn = "none"
    /\ fnOut' = [NoResult EXCEPT !.fn = "StartBackup", !.args = BackupArgs(fnIn.job)]
    /\ UNCHANGED <<runner, cancelFunc, ops, ret, ui, fnIn, cfg>>

FnNext ==
    \/ ApplyStartBackup
    \/ ApplyListSnapshotContents
    \/ ApplyFriendlyError
    \/ ApplyRun
    \/ ApplyInvocation
    \/ ApplyNewRunner

FnSpec == FnInit /\ [][FnNext]_vars

\* ------------------------------------------------------------------------
\* AppSpec: the exported operations of the App called with any arguments:
\* the synchronous engine operations, and one streaming operation per run
\* followed through every outcome of its stages.
\* ------------------------------------------------------------------------
ErrParseSnapshots == <<"failed to parse snapshot data">>

\* what the engine prints in a synchronous call, and its exit code
SyncOutcomes ==
    {<<<<"[]">>, 0>>, <<<<"repository 1a2b opened">>, 0>>,
     <<<<"Fatal:", "wrong password", "\n">>, 1>>}

\* json.Unmarshal([]byte(out), &snapshots) returns nil
ParsesAsSnapshots(out) == out = <<"[]">>

\* variant: the engine is run without looking at a.runner first
SyncCallUnchecked(op, repoID, out, code) ==
    /\ op \in SyncOps
    /\ repoID \in RepoIDs
    /\ LET r == Run(out, code)
           inv == Invocation(op, repoID)
       IN /\ fnOut' = [NoResult EXCEPT !.fn = "Run", !.out = r.out, !.err = r.err,
                                       !.args = inv.args, !.env = inv.env]
          /\ ret' = [api |-> op, err |-> r.err]
    /\ UNCHANGED <<runner, cancelFunc, ops>>

\* TestRepository, InitRepository, GetSnapshots, DeleteSnapshot,
\* GetResticVersion, ListSnapshotContents: the checks before the engine is
\* run, Runner.Run, and the error returned.  InitRepository is given the
\* repository itself, GetResticVersion none; GetResticVersion returns a
\* string and no error.  fnOut keeps the last Run.
SyncCall(op, repoID, out, code) ==
    /\ op \in SyncOps
    /\ op \in {"InitRepository", "GetResticVersion"} => repoID \in RepoIDs
    /\ IF runner = "nil"
       THEN /\ ret' = [api |-> op,
                       err |-> IF op = "GetResticVersion" THEN NoErr
                               ELSE ErrResticNotFound]
            /\ UNCHANGED fnOut
       ELSE IF repoID \notin RepoIDs
       THEN /\ ret' = [api |-> op, err |-> ErrRepoNotFound]
            /\ UNCHANGED fnOut
       ELSE LET r == Run(out, code)
                inv == Invocation(op, repoID)
            IN /\ fnOut' = [NoResult EXCEPT !.fn = "Run", !.out = r.out, !.err = r.err,
                                            !.args = inv.args, !.env = inv.env]
               /\ ret' = [api |-> op,
                          err |-> IF op = "GetResticVersion" THEN NoErr
                                  ELSE IF r.err # NoErr THEN r.err
                                  ELSE IF op = "GetSnapshots" /\ ~ParsesAsSnapshots(r.out)
                                  THEN ErrParseSnapshots
                                  ELSE NoErr]
    /\ UNCHANGED <<runner, cancelFunc, ops>>

\* the arguments the operations are called with
AppRepoIDs == {"r1", "r9"}
AppTargets == {TheTarget, ""}
AppSelections ==
    {<<>>, <<"/G/docs">>, <<"/g/a", "/G/docs">>, <<"/G/docs", "/H/c">>,
     <<"/srv/x", "/G/docs">>, <<"\\G\\b">>, <<"G">>, <<"//G/x">>, <<"/">>,
     <<"/<C3><A9>/x">>}

AppNext ==
    \/ \E repoID \in AppRepoIDs :
          /\ Launched = {}
          /\ StartBackup([TheJob EXCEPT !.repoID = repoID])
          /\ Frame
    \/ \E repoID \in AppRepoIDs, target \in AppTargets :
          Launched = {} /\ StartRestore(repoID, TheSnapshot, target) /\ Frame
    \/ \E repoID \in AppRepoIDs, sel \in AppSelections, target \in AppTargets,
          toOriginal \in BOOLEAN :
          /\ Launched = {}
          /\ RestoreSelected(repoID, TheSnapshot, sel, target, toOriginal)
          /\ Frame
    \/ CancelBackup /\ Frame
    \/ CancelRestore /\ Frame
    \/ \E op \in SyncOps, repoID \in AppRepoIDs, x \in SyncOutcomes :
          SyncCall(op, repoID, x[1], x[2]) /\ UNCHANGED <<ui, fnIn, cfg>>
    \/ \E i \in OpIds, mkdirOK \in BOOLEAN : Stage(i, mkdirOK) /\ Frame
    \/ \E i \in OpIds : Register(i) /\ Frame
    \/ \E i \in OpIds, outcome \in StreamStarts : StartProc(i, outcome) /\ Frame
    \/ \E i \in OpIds, x \in Exits : ProcExit(i, x[1], x[2]) /\ Frame
    \/ \E i \in OpIds, ctxErr \in BOOLEAN : Wait(i, ctxErr) /\ Frame
    \/ \E i \in OpIds, moveOK \in BOOLEAN : Move(i, moveOK) /\ Frame
    \/ \E i \in OpIds, entry \in Entries, outcome \in MoveOutcomes :
          MoveEntry(i, entry, outcome) /\ Frame
    \/ \E i \in OpIds, removeOK \in BOOLEAN : Cleanup(i, removeOK) /\ Frame

AppSpec == Init /\ [][AppNext]_vars

\* ------------------------------------------------------------------------
\* CfgSpec: the repository list.  Two callers mutate the configuration,
\* each call changing Config under cm.mu and then running Save, which takes
\* cm.mu again: the calls interleave between the two.
\* ------------------------------------------------------------------------
RepoNames == {"home", "work"}

\* uuid.New().String() of the n-th AddRepository
IdOf(n) ==
    CASE n = 1 -> "u1" [] n = 2 -> "u2" [] n = 3 -> "u3" [] OTHER -> "u4"

CfgIds == {IdOf(n) : n \in 1..MaxRepos}

IdsOf(repos) == {repos[k].id : k \in 1..Len(repos)}

CfgFrame == UNCHANGED <<runner, cancelFunc, ops, ret, ui, fnIn, fnOut>>

Called(c, op, id) ==
    [cfg.calls EXCEPT ![c] = [op |-> op, id |-> id, pc |-> "save", err |-> FALSE]]

\* App.AddRepository: repo.ID = uuid.New().String(), then
\* ConfigManager.AddRepository up to cm.mu.Unlock()
AddRepository(c, name) ==
    /\ cfg.calls[c].pc = "idle"
    /\ cfg.issued < MaxRepos
    /\ LET repo == [id |-> IdOf(cfg.issued + 1), name |-> name]
       IN cfg' = [cfg EXCEPT !.repos = Append(@, repo),
                             !.issued = @ + 1,
                             !.calls = Called(c, "AddRepository", repo.id)]
    /\ CfgFrame

\* ConfigManager.UpdateRepository up to cm.mu.Unlock(): the first entry
\* with the identifier is replaced
UpdateRepository(c, repo) ==
    /\ cfg.calls[c].pc = "idle"
    /\ LET hits == {k \in 1..Len(cfg.repos) : cfg.repos[k].id = repo.id}
           first == CHOOSE k \in hits : \A j \in hits : k <= j
       IN cfg' = [cfg EXCEPT !.repos = IF hits = {} THEN @
                                        ELSE [@ EXCEPT ![first] = repo],
                             !.calls = Called(c, "UpdateRepository", repo.id)]
    /\ CfgFrame

\* variant: the last-used identifier kept when its repository is deleted
DeleteRepositoryKeepsLastUsed(c, id) ==
    /\ cfg.calls[c].pc = "idle"
    /\ cfg' = [cfg EXCEPT !.repos = SelectSeq(@, LAMBDA r : r.id # id),
                          !.calls = Called(c, "DeleteRepository", id)]
    /\ CfgFrame

\* ConfigManager.DeleteRepository up to cm.mu.Unlock()
DeleteRepository(c, id) ==
    /\ cfg.calls[c].pc = "idle"
    /\ cfg' = [cfg EXCEPT !.repos = SelectSeq(@, LAMBDA r : r.id # id),
                          !.lastUsed = IF @ = id THEN "" ELSE @,
                          !.calls = Called(c, "DeleteRepository", id)]
    /\ CfgFrame

\* ConfigManager.SetLastUsedRepo up to cm.mu.Unlock()
SetLastUsedRepo(c, id) ==
    /\ cfg.calls[c].pc = "idle"
    /\ cfg' = [cfg EXCEPT !.lastUsed = id,
                          !.calls = Called(c, "SetLastUsedRepo", id)]
    /\ CfgFrame

\* cm.Save() of the call of c: Config as it is now is written to the file
\* (writeOK) or os.WriteFile fails; the call returns Save's error, which
\* SetLastUsedRepo drops
Save(c, writeOK) ==
    /\ cfg.calls[c].pc = "save"
    /\ cfg' = [cfg EXCEPT !.file = IF writeOK
                                   THEN [repos |-> cfg.repos, lastUsed |-> cfg.lastUsed]
                                   ELSE @,
                          !.calls[c] =
                              [NoCall EXCEPT !.err = /\ ~writeOK
                                                     /\ cfg.calls[c].op # "SetLastUsedRepo"]]
    /\ CfgFrame

CfgNext ==
    \/ \E c \in CfgCallers, name \in RepoNames : AddRepository(c, name)
    \/ \E c \in CfgCallers, id \in CfgIds, name \in RepoNames :
          UpdateRepository(c, [id |-> id, name |-> name])
    \/ \E c \in CfgCallers, id \in CfgIds : DeleteRepository(c, id)
    \/ \E c \in CfgCallers, id \in CfgIds : SetLastUsedRepo(c, id)
    \/ \E c \in CfgCallers, writeOK \in BOOLEAN : Save(c, writeOK)

CfgInit ==
    /\ runner = "ok"
    /\ cancelFunc = NIL
    /\ ops = [i \in OpIds |-> NoOp]
    /\ ret = NoRet
    /\ ui = UIIdle
    /\ fnIn = NoFn
    /\ fnOut = NoResult
    /\ cfg = NoCfg

CfgSpec == CfgInit /\ [][CfgNext]_vars

\* ------------------------------------------------------------------------
\* Properties
\* ------------------------------------------------------------------------
Last(q) == q[Len(q)]
DataOf(q) == [k \in 1..Len(q) |-> q[k].data]
Decoded(lines) == [k \in 1..Len(lines) |-> Unmarshal(lines[k])]

RECURSIVE IsSubseq(_, _)
IsSubseq(a, b) ==
    IF a = <<>> THEN TRUE
    ELSE IF b = <<>> THEN FALSE
    ELSE IF Head(a) = Head(b) THEN IsSubseq(Tail(a), Tail(b))
    ELSE IsSubseq(a, Tail(b))

Ended(i) == ops[i].pc \in {"cleanup", "done"}
Running(i) ==
    ops[i].pc \in {"stage", "call", "registered", "reading", "wait", "move", "moving"}

\* C1: a launched background task never emits more than one terminal event,
\* has emitted exactly one when it has ended, none while it is still working,
\* and the terminal event is the last event of the task (no progress event
\* follows it).
C1_OneTerminalEvent ==
    \A i \in OpIds :
        /\ Len(TerminalsOf(i)) <= 1
        /\ Ended(i) => Len(TerminalsOf(i)) = 1
        /\ Running(i) => Len(TerminalsOf(i)) = 0
        /\ Len(TerminalsOf(i)) = 1 => IsTerminal(Last(ops[i].ev))

C1_Witness ==
    \E i \in OpIds :
        /\ ops[i].pc = "done"
        /\ ops[i].toOriginal
        /\ Len(ProgressOf(i)) >= 1
        /\ Len(TerminalsOf(i)) = 1
        /\ Last(ops[i].ev).name = "restore:complete"

\* C2 (as claimed): when Cancel() was called while a streaming call was in
\* flight with its subprocess alive, and the subprocess then exited non-zero,
\* the call returns 'cancelled' and the terminal event carries it.
C2_CancelledNotFailed ==
    [][\A i \in OpIds :
         (/\ InFlight(i) /\ ops[i].cancelReq
          /\ ops[i].proc = "exited" /\ ops[i].code # 0
          /\ ~InFlight(i)')
         => /\ ops'[i].ev # <<>>
            /\ Last(ops'[i].ev).data = ErrCancelled]_vars

\* C3 (as claimed): whatever the user does on the pages, no two tasks of the
\* same kind (two backups, or two restores) have their subprocesses running
\* at the same time.
C3_OneSubprocessPerKind ==
    \A i, j \in OpIds :
        (/\ i # j
         /\ ops[i].proc = "alive" /\ ops[j].proc = "alive")
        => Kind(ops[i].api) # Kind(ops[j].api)

\* C4 (as claimed): the cancellation trigger is registered exactly while a
\* streaming call is in flight.
C4_TriggerIffInFlight ==
    (cancelFunc # NIL) <=> (\E i \in OpIds : InFlight(i))

\* C5: a CancelBackup / CancelRestore call made while no streaming call is
\* in flight changes neither the runner's trigger nor any task (its context,
\* its subprocess, its events), so nothing started later can tell it from no
\* call or from several.
NoneInFlight == \A i \in OpIds : ~InFlight(i)

C5_IdleCancelIsNoOp ==
    [][(NoneInFlight /\ (CancelBackup \/ CancelRestore))
         => UNCHANGED <<cancelFunc, ops>>]_vars

C5_Witness ==
    /\ NoneInFlight
    /\ ret.api \in {"CancelBackup", "CancelRestore"}
    /\ cancelFunc = NIL
    /\ \E i \in OpIds : ops[i].pc = "move"
    /\ \E i \in OpIds : ops[i].pc = "done"

\* C6: the progress events of a task carry, in order, the decoded values of
\* a subsequence of the lines its subprocess wrote on stdout.
C6_ProgressInOrder ==
    \A i \in OpIds : IsSubseq(DataOf(ProgressOf(i)), Decoded(ops[i].out))

C6_Witness ==
    \E i \in OpIds :
        /\ ops[i].out = <<LineStatus, LineSummary>>
        /\ DataOf(ProgressOf(i)) = Decoded(<<LineStatus, LineSummary>>)

\* C7 (as claimed): every line that is valid JSON yields exactly one
\* progress event and every other line none.
C7_ValidJSONOneEvent ==
    \A i \in OpIds :
        DataOf(ProgressOf(i)) = Decoded(SelectSeq(ops[i].out, JSONValid))

\* C7 (amended): every line the scanner delivers yields one progress event
\* if json.Unmarshal decodes it into the progress struct and none otherwise,
\* and the loop goes on; only a line that does not fit the scanner's buffer
\* ends the loop, with no event.
Delivered(line) == Scannable(line) /\ UnmarshalOK(line)

C7_DecodableOneEvent ==
    \A i \in OpIds :
        /\ DataOf(ProgressOf(i)) = Decoded(SelectSeq(ops[i].out, Delivered))
        /\ \A k \in 1..(Len(ops[i].out) - 1) : Scannable(ops[i].out[k])
        /\ ops[i].pc = "wait" => ops[i].out # <<>> /\ ~Scannable(Last(ops[i].out))
        /\ (ops[i].pc = "reading" /\ ops[i].out # <<>>) => Scannable(Last(ops[i].out))

C7_Witness ==
    \E i \in OpIds :
        /\ ops[i].out = <<LineArray, LineStatus>>
        /\ DataOf(ProgressOf(i)) = Decoded(<<LineStatus>>)
        /\ ops[i].pc = "done"

\* the substrings friendlyError knows, and its fixed messages
KnownSubstrings ==
    {"wrong password", "no such file", "repository does not exist",
     "connection refused", "network", "dial", "permission denied",
     "already initialized", "is already locked"}
FixedMessages ==
    {MsgWrongPassword, MsgNotInitialized, MsgNetwork, MsgPermission,
     MsgAlreadyInit, MsgLocked}

\* sub occurs in raw, case-insensitively
Occurs(raw, sub) == \E k \in 1..Len(raw) : Lower(raw[k]) = sub
Known(raw) == \E sub \in KnownSubstrings : Occurs(raw, sub)

\* C8 (as claimed): Run returns the full captured output and no error on exit
\* code zero; on a non-zero exit code it returns no output and the
\* translation of the trimmed captured text, which is not that text when the
\* text contains a known substring.
C8_NeverRawText ==
    fnOut.fn = "Run" =>
        LET text == TrimSpace(fnIn.raw) IN
        IF fnIn.code = 0
        THEN fnOut.out = fnIn.raw /\ fnOut.err = NoErr
        ELSE /\ fnOut.out = <<>>
             /\ fnOut.err = friendlyError(text)
             /\ fnOut.err # NoErr
             /\ Known(text) => fnOut.err # text

\* C8 (amended): as above, but when the trimmed text contains a known
\* substring the error is one of the six fixed messages (it is the text
\* itself only when the engine wrote exactly that fixed message).
C8_RunResult ==
    fnOut.fn = "Run" =>
        LET text == TrimSpace(fnIn.raw) IN
        IF fnIn.code = 0
        THEN fnOut.out = fnIn.raw /\ fnOut.err = NoErr
        ELSE /\ fnOut.out = <<>>
             /\ fnOut.err = friendlyError(text)
             /\ fnOut.err # NoErr
             /\ Known(text) => fnOut.err \in FixedMessages
             /\ (Known(text) /\ fnOut.err = text) => text \in FixedMessages

C8_Witness ==
    /\ fnOut.fn = "Run"
    /\ fnIn.code # 0
    /\ fnIn.raw = <<"Fatal:", "wrong password">>
    /\ fnOut.out = <<>>
    /\ fnOut.err = MsgWrongPassword

\* C9: friendlyError(raw) is the message of the first rule, in the order
\* wrong-password, not-initialized, network, permission-denied,
\* already-initialized, already-locked, one of whose substrings occurs in raw
\* case-insensitively; with no such rule it is raw, or 'Unknown error' for
\* the empty raw.
RuleOrder ==
    << [subs |-> {"wrong password"}, msg |-> MsgWrongPassword],
       [subs |-> {"no such file", "repository does not exist"}, msg |-> MsgNotInitialized],
       [subs |-> {"connection refused", "network", "dial"}, msg |-> MsgNetwork],
       [subs |-> {"permission denied"}, msg |-> MsgPermission],
       [subs |-> {"already initialized"}, msg |-> MsgAlreadyInit],
       [subs |-> {"is already locked"}, msg |-> MsgLocked] >>

Matching(raw) ==
    {k \in 1..Len(RuleOrder) : \E sub \in RuleOrder[k].subs : Occurs(raw, sub)}

FirstRule(raw) ==
    CHOOSE k \in Matching(raw) : \A m \in Matching(raw) : k <= m

C9_FirstRuleWins ==
    fnOut.fn = "friendlyError" =>
        fnOut.err = IF Matching(fnIn.raw) # {} THEN RuleOrder[FirstRule(fnIn.raw)].msg
                    ELSE IF fnIn.raw = <<>> THEN MsgUnknown
                    ELSE fnIn.raw

C9_Witness ==
    /\ fnOut.fn = "friendlyError"
    /\ fnIn.raw = <<"is already locked", "Wrong password">>
    /\ fnOut.err = MsgWrongPassword

\* C10: in the invocation an App operation makes, neither the repository URI
\* nor the password is an element of the argument list; the environment
\* overlay holds them under RESTIC_REPOSITORY and RESTIC_PASSWORD and holds
\* nothing else; and the same operation on a repository that differs in the
\* password only has the same argument list and the same event names.
C10_SecretsOnlyInEnv ==
    fnOut.fn = "Invocation" =>
        LET repo == Repos[fnIn.repoID] IN
        /\ ~Contains(fnOut.args, repo.uri)
        /\ ~Contains(fnOut.args, repo.password)
        /\ fnOut.env \in {{}, EnvOverlay(repo.uri, repo.password)}
        /\ fnIn.op # "GetResticVersion" => fnOut.env # {}
        /\ \A other \in RepoIDs :
              Repos[other].uri = repo.uri =>
                  /\ Invocation(fnIn.op, other).args = fnOut.args
                  /\ Invocation(fnIn.op, other).names = fnOut.names

C10_Witness ==
    /\ fnOut.fn = "Invocation"
    /\ fnIn.op = "RestoreSelectedToOriginal"
    /\ fnIn.repoID = "r2"
    /\ fnOut.env = EnvOverlay("sftp:host:/repo", "pw-two")
    /\ fnOut.args = Invocation("RestoreSelectedToOriginal", "r1").args
    /\ fnOut.names = {"restore:progress", "restore:complete", "restore:error"}

\* ------------------------------------------------------------------------
\* The App without an engine
\* ------------------------------------------------------------------------
\* the operations that need the engine and return an error without it
EngineOps == {"TestRepository", "InitRepository", "StartBackup", "GetSnapshots",
              "DeleteSnapshot", "StartRestore", "ListSnapshotContents",
              "RestoreSelected"}

\* C11: when the locator failed (a.runner is nil), every engine-dependent
\* operation returns 'restic not found', no subprocess is launched (no
\* background task exists, Runner.Run was never entered), no event is
\* emitted, and CancelBackup / CancelRestore change nothing.
C11_NoEngineNoEffect ==
    runner = "nil" =>
        /\ ops = [i \in OpIds |-> NoOp]
        /\ cancelFunc = NIL
        /\ fnOut = NoResult
        /\ ret.api \in EngineOps => ret.err = ErrResticNotFound
        /\ ret.api \in {"CancelBackup", "CancelRestore"} => ret.err = NoErr

\* every kind of engine-dependent call is made without an engine
C11_Witness ==
    /\ runner = "nil"
    /\ ret.api = "ListSnapshotContents"
    /\ ret.err = ErrResticNotFound

\* ------------------------------------------------------------------------
\* The locator
\* ------------------------------------------------------------------------
\* C12 as stated: NewRunner returns the co-located binary whenever it
\* exists, the search-path binary only when the co-located one is absent,
\* and fails with not-found exactly when both are absent.
C12_ColocatedFirst ==
    fnOut.fn = "NewRunner" =>
        /\ fnIn.colocated => fnOut.path = ColocatedPath /\ fnOut.err = NoErr
        /\ fnOut.path = SearchPath => ~fnIn.colocated
        /\ fnOut.err # NoErr <=> (~fnIn.colocated /\ ~fnIn.inPath)

\* C12 amended: the co-located binary is found only when the application's
\* own path can be determined.  With "seen" meaning that os.Executable
\* succeeded and the co-located binary exists: NewRunner returns the
\* co-located binary whenever it is seen, the search-path binary exactly
\* when it exists and the co-located one is not seen, and fails with
\* not-found exactly when the co-located one is not seen and the search
\* path has none.
C12_ColocatedFirstWhenExeKnown ==
    fnOut.fn = "NewRunner" =>
        LET seen == fnIn.exeOK /\ fnIn.colocated
        IN /\ seen => fnOut.path = ColocatedPath /\ fnOut.err = NoErr
           /\ fnOut.path = SearchPath <=> (~seen /\ fnIn.inPath)
           /\ fnOut.err # NoErr <=> (~seen /\ ~fnIn.inPath)
           /\ fnOut.err # NoErr => fnOut.err = ErrLocate /\ fnOut.path = ""

\* both binaries exist and the co-located one is returned
C12_Witness ==
    /\ fnOut.fn = "NewRunner"
    /\ fnIn.exeOK /\ fnIn.colocated /\ fnIn.inPath
    /\ fnOut.path = ColocatedPath

\* ------------------------------------------------------------------------
\* Restore to original location
\* ------------------------------------------------------------------------
ErrDriveLetter == <<"Could not determine drive letter from path">>

\* the number of characters of a byte sequence: UTF-8 continuation bytes
\* do not start a character
RuneCount(cs) == Cardinality({k \in 1..Len(cs) : cs[k] # "<A9>"})

\* the tasks restoring to the original location that are past deriving the volume
Derived == {i \in OpIds : ops[i].toOriginal /\ ops[i].pc \notin {"unused", "stage"}}

\* the first segment of the first selected path of task i
FirstOf(i) == FirstSegment(Normalized(IncludesOf(ops[i].args)[1]))

DriveFailed(i) == ops[i].ev # <<>> /\ ops[i].ev[1] = [name |-> "restore:error", data |-> ErrDriveLetter]

\* the task did nothing but report: no staging directory, no subprocess
OnlyReported(i) ==
    /\ ops[i].pc = "done"
    /\ Len(ops[i].ev) = 1
    /\ ~ops[i].staged
    /\ ops[i].proc = "none" /\ ops[i].out = <<>>
    /\ cancelFunc # i

\* C13 as stated: the restore fails with 'Could not determine drive letter
\* from path' exactly when the first segment of the first selected path is
\* not exactly one character long.
C13_FailsIffNotOneCharacter ==
    \A i \in Derived : DriveFailed(i) <=> RuneCount(FirstOf(i)) # 1

\* C13 amended: in original mode the restore fails with 'Could not determine
\* drive letter from path' exactly when the first segment of the first
\* selected path (backslashes turned into slashes, one leading slash
\* dropped) is not exactly one byte long; then no staging directory is
\* created and no subprocess launched.  Otherwise the volume is that byte
\* upper-cased.  The other selected paths play no part.
C13_FailsIffNotOneByte ==
    \A i \in Derived :
        /\ DriveFailed(i) <=> Len(FirstOf(i)) # 1
        /\ DriveFailed(i) => OnlyReported(i)
        /\ ~DriveFailed(i) => ops[i].drive = ToUpperChar(FirstOf(i)[1])

\* a selection whose first path has no volume and whose second has one
C13_Witness ==
    \E i \in Derived :
        /\ IncludesOf(ops[i].args) = <<"/srv/x", "/G/docs">>
        /\ DriveFailed(i)

\* C14: in original mode the staging directory V:\restic-gui-temp-<token>
\* exists on the derived volume V before the engine is launched; the
\* engine's --target is exactly that directory, and its argument list has
\* exactly one --include per selected path, in selection order.
C14_StagedBeforeEngine ==
    \A i \in OpIds :
        (ops[i].toOriginal /\ InFlight(i)) =>
            LET o == ops[i]
                sel == o.includePaths
            IN /\ o.staged
               /\ o.drive = ToUpperChar(FirstOf(i)[1])
               /\ SubSeq(o.args, 1, 5) =
                      <<"restore", TheSnapshot, "--target",
                        o.drive \o ":\\restic-gui-temp-1a2b3c4d", "--json">>
               /\ Len(o.args) = 5 + 2 * Len(sel)
               /\ \A k \in 1..Len(sel) :
                      o.args[4 + 2 * k] = "--include" /\ o.args[5 + 2 * k] = sel[k]

\* the engine runs on a selection of two paths
C14_Witness ==
    \E i \in OpIds :
        /\ ops[i].toOriginal /\ ops[i].proc = "alive"
        /\ ops[i].includePaths = <<"/g/a", "/G/docs">>
        /\ ops[i].staged

\* task i, restoring to the original location, has emitted restore:complete
Completed(i) ==
    /\ ops[i].toOriginal
    /\ ops[i].ev # <<>>
    /\ Last(ops[i].ev).name = "restore:complete"

\* C15 as stated: on restore:complete every top-level entry the engine
\* produced under <staging>\G\ is present under G:\ and none of them remains
\* under the staging directory.
C15_MovedAndGone ==
    \A i \in OpIds :
        Completed(i) => ops[i].made \subseteq ops[i].dest /\ ops[i].left = {}

\* C15 amended: on restore:complete every top-level entry the engine
\* produced under <staging>\G\ is present under G:\ and moveContents has
\* gone through all of them; an entry that is still under the staging
\* directory (copied after a failed rename, its source not removed) is one
\* of those entries, and stays only until the staging directory is removed.
C15_MovedMaybeKept ==
    \A i \in OpIds :
        Completed(i) =>
            /\ ops[i].made \subseteq ops[i].dest
            /\ ops[i].todo = {}
            /\ ops[i].left \subseteq ops[i].made
            /\ ops[i].left # {} => ops[i].staged

\* two entries moved, the task complete, nothing left behind
C15_Witness ==
    \E i \in OpIds :
        /\ Completed(i)
        /\ Cardinality(ops[i].made) = 2
        /\ ops[i].dest = ops[i].made
        /\ ops[i].left = {}
        /\ ops[i].pc = "cleanup"

\* task i has ended after its staging directory was created
EndedStaged(i) ==
    /\ ops[i].toOriginal
    /\ ops[i].pc = "done"
    /\ ops[i].ev[1].data \notin {ErrDriveLetter, ErrMkdir}

\* C16 as stated: once the staging directory has been created it is removed
\* on every path by which the task ends.
C16_StagingRemoved ==
    \A i \in OpIds : ops[i].pc = "done" => ~ops[i].staged

\* C16 amended: once the staging directory has been created its removal is
\* attempted on every path by which the task ends; the directory is gone
\* when the removal succeeded and is still there when it failed.  Until the
\* task ends the directory exists.
C16_RemovalAttempted ==
    \A i \in OpIds :
        /\ EndedStaged(i) =>
              /\ ops[i].removal \in {"ok", "failed"}
              /\ ops[i].removal = "ok" <=> ~ops[i].staged
        /\ (ops[i].staged /\ ops[i].pc # "done") =>
              ops[i].pc \in {"call", "registered", "reading", "wait",
                             "move", "moving", "cleanup"}
        /\ ~ops[i].toOriginal => ~ops[i].staged /\ ops[i].removal = "none"

\* the restore was cancelled and the staging directory is gone
C16_Witness ==
    \E i \in OpIds :
        /\ EndedStaged(i)
        /\ Last(ops[i].ev) = [name |-> "restore:error", data |-> ErrCancelled]
        /\ ops[i].removal = "ok" /\ ~ops[i].staged

\* the stage a task restoring to the original location is in: 1 derive the
\* volume and create the staging directory, 2 engine restore, 3 move,
\* 4 ended with the staging directory to remove, 5 ended
StageOf(pc) ==
    CASE pc = "unused" -> 0
      [] pc = "stage" -> 1
      [] pc \in {"call", "registered", "reading", "wait"} -> 2
      [] pc \in {"move", "moving"} -> 3
      [] pc = "cleanup" -> 4
      [] pc = "done" -> 5

\* one step of task i keeps the order of the stages
StagesStep(i) ==
    LET o == ops[i]
        n == ops'[i]
        emitted == Len(n.ev) = Len(o.ev) + 1
        e == Last(n.ev)
    IN /\ StageOf(n.pc) >= StageOf(o.pc)
       /\ StageOf(n.pc) \in {StageOf(o.pc), StageOf(o.pc) + 1}
             \/ /\ emitted /\ e.name = "restore:error"
                /\ n.pc = IF StageOf(o.pc) = 1 THEN "done" ELSE "cleanup"
       /\ StageOf(n.pc) = 2 => n.staged /\ n.drive # ""
       /\ StageOf(n.pc) = 3 => n.staged /\ n.proc = "none" /\ n.ev = o.ev
       /\ n.ev # o.ev => emitted /\ SubSeq(n.ev, 1, Len(o.ev)) = o.ev
       /\ (emitted /\ e.name = "restore:error") =>
             CASE StageOf(o.pc) = 1 ->
                     /\ e.data = IF o.drive = "" THEN ErrDriveLetter ELSE ErrMkdir
                     /\ ~n.staged /\ n.pc = "done"
               [] StageOf(o.pc) = 2 ->
                     /\ e.data \notin {ErrDriveLetter, ErrMkdir}
                     /\ e.data[1] # "Move failed: "
                     /\ n.pc = "cleanup" /\ n.dest = {}
               [] StageOf(o.pc) = 3 ->
                     /\ e.data[1] = "Move failed: "
                     /\ n.pc = "cleanup" /\ n.todo = {}
               [] OTHER -> FALSE
       /\ (emitted /\ e.name = "restore:complete") =>
             /\ StageOf(o.pc) = 3 /\ n.pc = "cleanup"
             /\ n.todo = {} /\ n.made \subseteq n.dest
       /\ StageOf(o.pc) \in {4, 5} =>
             n.ev = o.ev /\ n.dest = o.dest /\ n.proc = "none" /\ n.todo = {}

\* C17: a restore to the original location runs its stages strictly in the
\* order derive volume, create staging directory, engine restore, move; a
\* failure at a stage emits restore:error with that stage's message and no
\* later stage is executed; restore:complete is emitted only after the move
\* returned without error.
C17_StagesInOrder ==
    [][\A i \in OpIds : ops'[i].toOriginal /\ ops'[i] # ops[i] => StagesStep(i)]_vars

\* the move failed after one entry had been moved
C17_Witness ==
    \E i \in OpIds :
        /\ ops[i].toOriginal /\ ops[i].pc = "done"
        /\ Len(ops[i].ev) = 1
        /\ ops[i].ev[1].name = "restore:error"
        /\ ops[i].ev[1].data[1] = "Move failed: "
        /\ ops[i].dest # {}

\* ------------------------------------------------------------------------
\* What RestoreSelected checks before it launches
\* ------------------------------------------------------------------------
\* the tasks RestoreSelected launched
Selective == {i \in OpIds : ops[i].api = "RestoreSelected"}

\* C18 as stated: no restore task is launched with an empty set of included
\* paths, and in custom-folder mode none with an empty target directory.
C18_SelectionAndTargetChecked ==
    \A i \in Selective :
        /\ ops[i].includePaths # <<>>
        /\ ~ops[i].toOriginal => ops[i].args[4] # ""

\* C18 amended: no restore task is launched with an empty set of included
\* paths, its argument list names every selected path, and a RestoreSelected
\* call with an empty selection returns 'no paths selected' and launches
\* nothing.  (The target is not looked at.)
C18_SelectionChecked ==
    /\ [](\A i \in Selective :
             /\ ops[i].includePaths # <<>>
             /\ IncludesOf(ops[i].args) = ops[i].includePaths)
    /\ [][(ret' # ret /\ ret'.api = "RestoreSelected" /\ ret'.err = ErrNoPaths)
             => UNCHANGED <<ops, cancelFunc>>]_vars

\* a call with an empty selection has been rejected
C18_Witness ==
    /\ ret = [api |-> "RestoreSelected", err |-> ErrNoPaths]
    /\ runner = "ok"
    /\ Launched = {}

\* ------------------------------------------------------------------------
\* Errors returned and errors delivered
\* ------------------------------------------------------------------------
StartApis == {"StartBackup", "StartRestore", "RestoreSelected"}

\* the errors of the checks made before a task is launched
PreconditionErrors(api) ==
    {ErrResticNotFound, ErrRepoNotFound}
        \cup (IF api = "RestoreSelected" THEN {ErrNoPaths} ELSE {})

\* the tasks launched in this step
NewTasks == {i \in OpIds : ops[i].pc = "unused" /\ ops'[i].pc # "unused"}

\* C19: StartBackup, StartRestore and RestoreSelected return an error only
\* for a precondition failure found before the background task is launched
\* (runner missing, unknown repository, empty selection), and then no task
\* exists to emit an event for the call; a call that launches a task
\* returns nil, and every event, failures included, is emitted by a task in
\* a step of its own, after the call returned.
C19_ErrorsBeforeLaunchOnly ==
    [][/\ \A i \in NewTasks :
             /\ ret'.api = ops'[i].api /\ ret'.api \in StartApis
             /\ ret'.err = NoErr
             /\ ops'[i].ev = <<>>
       /\ (ret' # ret /\ ret'.api \in StartApis) =>
             IF ret'.err = NoErr
             THEN Cardinality(NewTasks) = 1
             ELSE /\ ret'.err \in PreconditionErrors(ret'.api)
                  /\ UNCHANGED <<ops, cancelFunc>>
       /\ \A i \in OpIds :
             ops'[i].ev # ops[i].ev =>
                /\ ret' = ret
                /\ ops[i].pc # "unused"
      ]_vars

\* a backup failed after StartBackup had returned nil
C19_Witness ==
    /\ ret = [api |-> "StartBackup", err |-> NoErr]
    /\ \E i \in OpIds :
          /\ ops[i].api = "StartBackup"
          /\ ops[i].ev # <<>>
          /\ Last(ops[i].ev).name = "backup:error"

\* ------------------------------------------------------------------------
\* Cancellation as the page shows it
\* ------------------------------------------------------------------------
\* C20: a cancellation the user asked for is not shown as an error: after
\* the user cancelled a running backup or full restore from its page (the
\* cancel handler has finished with setStatus('idle')), the page's status
\* does not become 'error' with the message of the cancelled operation.
C20_CancelNotShownAsError ==
    ~ /\ ui.page \in {"backup", "restore"}
      /\ ret.api = IF ui.page = "backup" THEN "CancelBackup" ELSE "CancelRestore"
      /\ ui.wait = "none"
      /\ ui.status = "error"
      /\ ui.errMsg = ErrCancelled

\* ------------------------------------------------------------------------
\* How a streaming call that ran its subprocess is classified
\* ------------------------------------------------------------------------
\* task i returns from cmd.Wait in this step
WaitReturns(i) ==
    /\ ops[i].pc \in {"reading", "wait"} /\ ops[i].proc = "exited"
    /\ ops'[i].pc \notin {"reading", "wait"}

\* what RunWithProgress returned to task i in this step: nil when the task
\* goes on to the move phase or emits its complete event
Returned(i) ==
    IF ops'[i].ev = ops[i].ev \/ Last(ops'[i].ev).name \in {"backup:complete", "restore:complete"}
    THEN NoErr
    ELSE Last(ops'[i].ev).data

ListedLines == splitLines(fnIn.raw)

\* the lines that describe an entry
EntryLines == {<<LsNodeDir>>, <<LsNodeFile>>}

\* C22 as stated: the first output line is discarded, every line that does
\* not decode is skipped, and the remaining lines are returned as nodes in
\* output order, as many as there are decodable lines after the first.
C22_FirstLineDiscarded ==
    fnOut.fn = "ListSnapshotContents" =>
        LET rest == IF ListedLines = <<>> THEN <<>> ELSE Tail(ListedLines)
            kept == SelectSeq(rest, NodeUnmarshalOK)
        IN fnOut.out = [k \in 1..Len(kept) |-> FileNode(kept[k])]

\* C22 amended: the nodes returned are, in output order, the lines that
\* decode into a FileNode tagged "node", wherever they stand; every other
\* line (the snapshot line, a line that is not JSON or does not decode, an
\* object without the tag, an empty line) is skipped, and no line is
\* discarded for its position.
C22_NodeLinesOnly ==
    fnOut.fn = "ListSnapshotContents" =>
        LET kept == SelectSeq(ListedLines, LAMBDA l : l \in EntryLines)
        IN /\ Len(fnOut.out) = Len(kept)
           /\ \A k \in 1..Len(kept) :
                 /\ fnOut.out[k] = FileNode(kept[k])
                 /\ fnOut.out[k].StructType = "node"

\* a warning, the snapshot line and an entry: one node
C22_Witness ==
    /\ fnOut.fn = "ListSnapshotContents"
    /\ fnIn.raw = <<LsText, "\n", LsSnapshot, "\n", LsNodeDir, "\n">>
    /\ Len(fnOut.out) = 1
    /\ fnOut.out[1].Path = "/G/docs"

\* ------------------------------------------------------------------------
\* The argument list of a backup
\* ------------------------------------------------------------------------
\* C23: for every backup job the argument list is exactly 'backup',
\* '--json', then one '--exclude', <pattern> pair per exclude in job order,
\* then one '--tag', <tag> pair per tag in job order, then the source paths
\* in job order, and nothing else.
C23_BackupArgsExact ==
    fnOut.fn = "StartBackup" =>
        LET job == fnIn.job
            args == fnOut.args
            ne == Len(job.excludes)
            nt == Len(job.tags)
            ns == Len(job.sourcePaths)
        IN /\ Len(args) = 2 + 2 * ne + 2 * nt + ns
           /\ args[1] = "backup" /\ args[2] = "--json"
           /\ \A k \in 1..ne :
                 args[1 + 2 * k] = "--exclude" /\ args[2 + 2 * k] = job.excludes[k]
           /\ \A k \in 1..nt :
                 /\ args[1 + 2 * ne + 2 * k] = "--tag"
                 /\ args[2 + 2 * ne + 2 * k] = job.tags[k]
           /\ \A k \in 1..ns :
                 args[2 + 2 * ne + 2 * nt + k] = job.sourcePaths[k]

\* a job with two excludes, two tags and two source paths
C23_Witness ==
    /\ fnOut.fn = "StartBackup"
    /\ fnIn.job.excludes = <<"*.tmp", ".git">>
    /\ fnIn.job.tags = <<"host", "daily">>
    /\ fnIn.job.sourcePaths = <<"D:\\x", "C:\\data">>
    /\ Len(fnOut.args) = 12

\* ------------------------------------------------------------------------
\* Whose subprocess a cancel operation stops
\* ------------------------------------------------------------------------
\* the cancel operation of the kind of task i
CancelOf(i) == IF Kind(ops[i].api) = "backup" THEN "CancelBackup" ELSE "CancelRestore"

\* C24: cancellation is scoped to the operation kind: while a backup and a
\* restore are both in flight, the context of the restore is never
\* cancelled by CancelBackup, nor that of the backup by CancelRestore.
C24_CancelScopedToKind ==
    [][\A i \in OpIds :
         (/\ ~ops[i].ctx /\ ops'[i].ctx
          /\ \E j \in OpIds : InFlight(j) /\ Kind(ops[j].api) # Kind(ops[i].api))
         => ret'.api = CancelOf(i)]_vars

\* ------------------------------------------------------------------------
\* Cancel between registration and start
\* ------------------------------------------------------------------------
\* C25: a Cancel() that arrives after the trigger was registered and before
\* the subprocess was started is not lost: unless the pipes or the
\* executable fail on their own, the call ends with 'cancelled', not with
\* another message and not by running the subprocess.
C25_EarlyCancelIsCancelled ==
    [][\A i \in OpIds :
         (ops[i].pc = "registered" /\ ops[i].ctx /\ ops'[i].pc # "registered")
         => /\ ops'[i].ev # ops[i].ev
            /\ Last(ops'[i].ev).data \in {ErrCancelled, ErrPipe, ErrExec}]_vars

\* ------------------------------------------------------------------------
\* The failure message and what the subprocess wrote on stderr
\* ------------------------------------------------------------------------
\* the complete stderr text: every line the subprocess wrote, each with its
\* newline
RECURSIVE WithNewlines(_)
WithNewlines(lines) ==
    IF lines = <<>> THEN <<>>
    ELSE <<Head(lines), "\n">> \o WithNewlines(Tail(lines))

\* C26: when the subprocess of a streaming call exits non-zero and no
\* cancellation was requested, the failure message is the translation of
\* the complete stderr text, in every interleaving of the stderr goroutine
\* with the read loop and the wait.
C26_MessageFromAllStderr ==
    [][\A i \in OpIds :
         (WaitReturns(i) /\ ~ops[i].ctx /\ ops[i].code # 0)
         => Returned(i) = friendlyError(TrimSpace(WithNewlines(ops[i].errText)))]_vars

\* ------------------------------------------------------------------------
\* Termination
\* ------------------------------------------------------------------------
\* C27: under fair scheduling every launched streaming operation eventually
\* emits its terminal event: the read loop never ends in a way that leaves
\* the subprocess unable to exit or the operation without a terminal event.
C27_EventuallyTerminal ==
    \A i \in OpIds : (ops[i].pc # "unused") ~> (TerminalsOf(i) # <<>>)

\* ------------------------------------------------------------------------
\* The terminal event and the removal of the staging directory
\* ------------------------------------------------------------------------
\* C28: in a restore to the original location the terminal event is the
\* last observable step: once restore:complete, or restore:error, has been
\* emitted, the staging directory does not exist.
C28_StagingGoneAtTerminalEvent ==
    \A i \in OpIds :
        (ops[i].toOriginal /\ TerminalsOf(i) # <<>>) => ~ops[i].staged

\* ------------------------------------------------------------------------
\* What moveContents leaves behind when it returns nil
\* ------------------------------------------------------------------------
\* C29: whenever moveContents returns without error, every top-level entry
\* of the staging volume subtree is present at the destination with its
\* full subtree.
C29_MovedWithFullSubtree ==
    \A i \in OpIds :
        Completed(i) => ops[i].made \subseteq ops[i].dest /\ ops[i].short = {}

\* ------------------------------------------------------------------------
\* A failed or cancelled engine call leaves the volume alone
\* ------------------------------------------------------------------------
\* the task reported the error of its engine call
EngineFailed(i) ==
    /\ ops[i].toOriginal
    /\ TerminalsOf(i) # <<>>
    /\ TerminalsOf(i)[1].name = "restore:error"
    /\ TerminalsOf(i)[1].data \notin {ErrDriveLetter, ErrMkdir}
    /\ TerminalsOf(i)[1].data[1] # "Move failed: "

\* C30: restoring to the original location, once the engine call has failed
\* or was cancelled the move phase is not executed: nothing under
\* <volume>:\ outside the staging directory is created, replaced or removed,
\* and what the engine produced stays in the staging directory until the
\* cleanup.
C30_NoMoveAfterEngineFailure ==
    \A i \in OpIds :
        EngineFailed(i) =>
            /\ ops[i].pc \in {"cleanup", "done"}
            /\ ops[i].dest = {} /\ ops[i].short = {}
            /\ ops[i].todo = {}
            /\ ops[i].staged => ops[i].left = ops[i].made

C30_Witness ==
    \E i \in OpIds :
        /\ EngineFailed(i)
        /\ TerminalsOf(i)[1].data = ErrCancelled
        /\ ops[i].pc = "done"
        /\ ops[i].made # {} /\ ops[i].dest = {}

\* ------------------------------------------------------------------------
\* A move that fails part-way
\* ------------------------------------------------------------------------
\* the task reported the error of moveContents
MoveFailed(i) ==
    /\ ops[i].toOriginal
    /\ TerminalsOf(i) # <<>>
    /\ TerminalsOf(i)[1].name = "restore:error"
    /\ TerminalsOf(i)[1].data \notin {ErrDriveLetter, ErrMkdir}
    /\ TerminalsOf(i)[1].data[1] = "Move failed: "

\* C31 as stated: after a failed move the task has reported 'Move failed'
\* and, once it has ended, the unmoved entries and the staging directory are
\* deleted.
C31_UnmovedDeletedAfterFailedMove ==
    \A i \in OpIds :
        (MoveFailed(i) /\ ops[i].pc = "done") =>
            ops[i].left = {} /\ ~ops[i].staged

\* C31 amended: the round of moveContents that fails keeps at the
\* destination every entry moved before it, adds at most the failing entry
\* (partially copied), leaves the entries not yet moved in the staging
\* directory, processes no further entry and reports restore:error 'Move
\* failed: ...'; the removal of the staging directory that follows changes
\* nothing at the destination and takes the unmoved entries away exactly
\* when it succeeds.
C31_FailedMoveNotRolledBack ==
    [][\A i \in OpIds :
         /\ (ops[i].pc = "moving" /\ ops'[i].ev # ops[i].ev
               /\ Last(ops'[i].ev).name = "restore:error") =>
               /\ Last(ops'[i].ev).data[1] = "Move failed: "
               /\ ops[i].dest \subseteq ops'[i].dest
               /\ ops'[i].dest \ ops[i].dest \subseteq ops[i].todo
               /\ Cardinality(ops'[i].dest \ ops[i].dest) <= 1
               /\ ops'[i].dest \ ops[i].dest \subseteq ops'[i].short
               /\ ops'[i].left = ops[i].left /\ ops[i].todo \subseteq ops'[i].left
               /\ ops'[i].todo = {} /\ ops'[i].pc = "cleanup"
         /\ (MoveFailed(i) /\ ops[i].pc = "cleanup" /\ ops'[i].pc # "cleanup") =>
               /\ ops'[i].pc = "done" /\ ops'[i].ev = ops[i].ev
               /\ ops'[i].dest = ops[i].dest /\ ops'[i].short = ops[i].short
               /\ \/ ops'[i].removal = "ok" /\ ops'[i].left = {} /\ ~ops'[i].staged
                  \/ /\ ops'[i].removal = "failed" /\ ops'[i].staged
                     /\ ops'[i].left = ops[i].left
         /\ (MoveFailed(i) /\ ops[i].pc = "done") => ops'[i] = ops[i]
      ]_vars

\* one entry moved, the next one failed part-way, the staging directory
\* removed with the entry that was not moved
C31_Witness ==
    \E i \in OpIds :
        /\ MoveFailed(i) /\ ops[i].pc = "done" /\ ops[i].removal = "ok"
        /\ ops[i].dest \ ops[i].short # {}
        /\ ops[i].short # {}
        /\ Cardinality(ops[i].made) >= 2

\* ------------------------------------------------------------------------
\* A selection that spans several volumes
\* ------------------------------------------------------------------------
\* the volume an include path names (upper case), "" when it names none
VolumeOf(path) ==
    LET first == FirstSegment(Normalized(path))
    IN IF Len(first) = 1 THEN ToUpperChar(first[1]) ELSE ""

\* the top-level names the selection of task i includes on volume v / on
\* the volumes other than v
NamesOn(i, v) ==
    {FirstSegment(AfterFirstSegment(Normalized(ops[i].includePaths[k]))) :
        k \in {n \in 1..Len(ops[i].includePaths) :
                 VolumeOf(ops[i].includePaths[n]) = v}} \ {<<>>}
NamesOff(i, v) ==
    {FirstSegment(AfterFirstSegment(Normalized(ops[i].includePaths[k]))) :
        k \in {n \in 1..Len(ops[i].includePaths) :
                 VolumeOf(ops[i].includePaths[n]) \notin {v, ""}}} \ {<<>>}

\* C32 as stated: with a selection that spans several volumes the task
\* reports restore:complete and, once it has ended, what was restored under
\* the other volumes' subtrees is deleted with the staging directory.
C32_StrayDeletedWithStaging ==
    \A i \in OpIds :
        (Completed(i) /\ ops[i].pc = "done" /\ NamesOff(i, ops[i].drive) # {}) =>
            ops[i].stray = {} /\ ~ops[i].staged

\* C32 amended: the first selected path alone determines the volume; only
\* entries under <staging>\<that volume>\ are ever placed under <volume>:\,
\* the entries restored under another volume's subtree are placed nowhere
\* and stay in the staging directory as long as it exists, the task reports
\* restore:complete all the same, and they go with the staging directory
\* exactly when its removal succeeds.
C32_OnlyFirstVolumeMoved ==
    \A i \in OpIds :
        ops[i].toOriginal =>
            /\ ops[i].pc # "stage" => ops[i].drive = VolumeOf(ops[i].includePaths[1])
            /\ ops[i].made \subseteq NamesOn(i, ops[i].drive)
            /\ ops[i].dest \subseteq NamesOn(i, ops[i].drive)
            /\ ops[i].dest \cap NamesOff(i, ops[i].drive) = {}
            /\ ops[i].stray \in {{}, NamesOff(i, ops[i].drive)}
            /\ ops[i].stray # {} => ops[i].staged
            /\ Completed(i) =>
                  /\ ops[i].made = NamesOn(i, ops[i].drive)
                  /\ ops[i].staged => ops[i].stray = NamesOff(i, ops[i].drive)
                  /\ ops[i].pc = "done" =>
                        (ops[i].removal = "ok" <=> ~ops[i].staged)

\* a selection on G: and H: restored: the G: entry moved, restore:complete
\* reported, the H: entry gone with the staging directory
C32_Witness ==
    \E i \in OpIds :
        /\ Completed(i) /\ ops[i].pc = "done" /\ ops[i].removal = "ok"
        /\ ops[i].drive = "G"
        /\ NamesOff(i, "G") = {<<"c">>}
        /\ ops[i].dest = {<<"d", "o", "c", "s">>}
        /\ ops[i].stray = {}

\* ------------------------------------------------------------------------
\* Whose terminal event the page shows
\* ------------------------------------------------------------------------
\* C33: a terminal event changes the displayed status only of the operation
\* that produced it: while the page shows 'running' for an operation it
\* started later, the delivery of an event of an earlier operation of that
\* kind leaves the status as it is.
C33_EarlierOperationLeavesStatus ==
    [][\A i \in OpIds :
         (/\ ui'.delivered[i] # ui.delivered[i]
          /\ ui.status = "running"
          /\ \E j \in OpIds : /\ j > i /\ ops[j].pc # "unused"
                              /\ Kind(ops[j].api) = Kind(ops[i].api))
         => ui'.status = ui.status]_vars

\* ------------------------------------------------------------------------
\* What the text of an error message decides
\* ------------------------------------------------------------------------
\* error texts the Backup page can be given
BackupErrorTexts ==
    {MsgNotInitialized, MsgUnknown, ErrCancelled, ErrExec, ErrResticNotFound,
     ErrRepoNotFound}

\* C34: the text of an error message selects no action: whatever the error
\* card of the Backup page offers for the message it shows, it offers for
\* every other message.
C34_MessageSelectsNoAction ==
    (ui.page = "backup" /\ ui.status = "error" /\ InitOffered(ui.errMsg)) =>
        \A m \in BackupErrorTexts : InitOffered(m)

\* ------------------------------------------------------------------------
\* The last-used repository
\* ------------------------------------------------------------------------
\* the identifier is empty or that of a repository in the list
Listed(c) == c.lastUsed = "" \/ c.lastUsed \in IdsOf(c.repos)

\* caller k enters the mutation op with identifier id in this step
Enters(k, op, id) ==
    /\ cfg.calls[k].pc = "idle" /\ cfg'.calls[k].pc = "save"
    /\ cfg'.calls[k].op = op /\ cfg'.calls[k].id = id

\* C35 as stated: after any sequence of AddRepository, UpdateRepository,
\* DeleteRepository and SetLastUsedRepo calls the last-used identifier is
\* empty or the identifier of a repository in the list.
C35_LastUsedIsListed == Listed(cfg)

\* C35 amended: DeleteRepository(id) clears the last-used identifier when
\* it is id and leaves it otherwise, AddRepository, UpdateRepository and
\* Save leave it, and SetLastUsedRepo(id) stores id whether or not the list
\* has such a repository; so a last-used identifier that is empty or listed
\* stays so over every step but a SetLastUsedRepo that names no repository
\* of the list.
C35_LastUsedClearedOnDelete ==
    [][\A k \in CfgCallers, id \in CfgIds :
         /\ Enters(k, "DeleteRepository", id) =>
               /\ cfg'.lastUsed = IF cfg.lastUsed = id THEN "" ELSE cfg.lastUsed
               /\ id \notin IdsOf(cfg'.repos)
         /\ Enters(k, "SetLastUsedRepo", id) =>
               cfg'.lastUsed = id /\ cfg'.repos = cfg.repos
         /\ (\A j \in CfgCallers, x \in CfgIds :
                ~Enters(j, "DeleteRepository", x) /\ ~Enters(j, "SetLastUsedRepo", x))
               => cfg'.lastUsed = cfg.lastUsed
         /\ (/\ Listed(cfg)
             /\ \A j \in CfgCallers, x \in CfgIds :
                   Enters(j, "SetLastUsedRepo", x) => x \in IdsOf(cfg.repos))
               => Listed(cfg')
      ]_vars

\* the last-used repository, saved as such, is being deleted and the
\* identifier is cleared while another repository stays in the list
C35_Witness ==
    \E k \in CfgCallers :
        /\ cfg.calls[k].op = "DeleteRepository" /\ cfg.calls[k].pc = "save"
        /\ cfg.file.lastUsed = cfg.calls[k].id
        /\ cfg.calls[k].id \in IdsOf(cfg.file.repos)
        /\ cfg.calls[k].id \notin IdsOf(cfg.repos)
        /\ \A j \in CfgCallers \ {k} : cfg.calls[j].pc = "idle"
        /\ cfg.lastUsed = "" /\ cfg.repos # <<>>

\* ------------------------------------------------------------------------
\* The list in memory and the list in the file
\* ------------------------------------------------------------------------
\* no mutation is in progress
Quiescent == \A k \in CfgCallers : cfg.calls[k].pc = "idle"

\* C36: a mutation that returns an error leaves the list in memory as it
\* was, so whenever no mutation is in progress, whatever the calls returned
\* and however they interleaved, the list in memory is the list in the file.
C36_MemoryAndFileAgree ==
    Quiescent => cfg.repos = cfg.file.repos

====
